---- MODULE Spec2Model ----
(***************************************************************************)
(* Rules engine of the chess variant: GameState (chess/gamestate.py), the  *)
(* piece move generators (chess/PieceMoves, chess/movegen/king_moves.py),  *)
(* the move aggregator (chess/movegen.py) and the drawback registry        *)
(* (chess/drawbacks.py).                                                   *)
(*                                                                         *)
(* A bitboard is a Python int used as a set of squares 0..63; it is        *)
(* modelled as the set of its one-bits.  None is modelled as NoneSq for    *)
(* en_passant_target and as "None" elsewhere.                              *)
(***************************************************************************)
EXTENDS Integers, Sequences, FiniteSets, TLC

\* ------------------------------------------------------------------
\* Bounds of the exploration
\* ------------------------------------------------------------------
\* number of make_move calls the caller may stack on top of a scripted line
MaxFree == 1

\* ------------------------------------------------------------------
\* chess/bitboard.py
\* ------------------------------------------------------------------
Squares == 0..63

NoneSq == -1

set_bit(bitboard, sq) == bitboard \cup {sq}

clear_bit(bitboard, sq) == bitboard \ {sq}

test_bit(bitboard, sq) == sq \in bitboard

coords_to_square(row, col) == row * 8 + col

square_to_coords(sq) == <<sq \div 8, sq % 8>>

in_bounds(row, col) == 0 <= row /\ row < 8 /\ 0 <= col /\ col < 8

\* ------------------------------------------------------------------
\* chess/pieces.py (piece codes; the generators spell them as literals)
\* ------------------------------------------------------------------
WHITE_PAWN == "wP"
WHITE_KNIGHT == "wN"
WHITE_BISHOP == "wB"
WHITE_ROOK == "wR"
WHITE_QUEEN == "wQ"
WHITE_KING == "wK"
BLACK_PAWN == "bP"
BLACK_KNIGHT == "bN"
BLACK_BISHOP == "bB"
BLACK_ROOK == "bR"
BLACK_QUEEN == "bQ"
BLACK_KING == "bK"

\* ------------------------------------------------------------------
\* chess/move.py
\* ------------------------------------------------------------------
\* Move.__init__; id stands for the identity of the Python object (Move
\* defines no __eq__, so == and != compare identity).  0 is an object that
\* is not on the move history.
Move(piece, startSq, endSq, isCapture, isCastle) ==
    [piece |-> piece, startSq |-> startSq, endSq |-> endSq,
     isCapture |-> isCapture, isCastle |-> isCastle,
     captured_piece |-> "None", id |-> 0]

\* lastMove != move in unmake_move: object.__ne__, i.e. identity
MoveNe(a, b) == a.id # b.id

\* ------------------------------------------------------------------
\* GameState occupancy queries (chess/gamestate.py)
\* ------------------------------------------------------------------
get_white_occupancy(g) ==
    g.whitePawns \cup g.whiteKnights \cup g.whiteBishops \cup
    g.whiteRooks \cup g.whiteQueen \cup g.whiteKing

get_black_occupancy(g) ==
    g.blackPawns \cup g.blackKnights \cup g.blackBishops \cup
    g.blackRooks \cup g.blackQueen \cup g.blackKing

get_occupancy(g) == get_white_occupancy(g) \cup get_black_occupancy(g)

\* ------------------------------------------------------------------
\* Piece move generators.  Each returns the set of the Move objects the
\* Python list holds.
\* ------------------------------------------------------------------
Row(sq) == square_to_coords(sq)[1]

Col(sq) == square_to_coords(sq)[2]

generate_pawn_moves(g, is_white) ==
    LET pawns == IF is_white THEN g.whitePawns ELSE g.blackPawns
        direction == IF is_white THEN -1 ELSE 1
        enemy_occ == IF is_white THEN get_black_occupancy(g)
                                 ELSE get_white_occupancy(g)
        occupancy == get_occupancy(g)
        pc == IF is_white THEN "wP" ELSE "bP"
        start_row == IF is_white THEN 6 ELSE 1
        forward(sq, row, col) ==
            IF /\ in_bounds(row + direction, col)
               /\ ~test_bit(occupancy, coords_to_square(row + direction, col))
            THEN {Move(pc, sq, coords_to_square(row + direction, col),
                       FALSE, FALSE)}
                 \cup
                 (IF /\ row = start_row
                     /\ ~test_bit(occupancy,
                            coords_to_square(row + 2 * direction, col))
                  THEN {Move(pc, sq,
                             coords_to_square(row + 2 * direction, col),
                             FALSE, FALSE)}
                  ELSE {})
            ELSE {}
        captures(sq, row, col) ==
            {Move(pc, sq, cap_sq, TRUE, FALSE) :
               cap_sq \in {c \in {coords_to_square(row + direction, col + dcol) :
                                    dcol \in {d \in {-1, 1} :
                                       in_bounds(row + direction, col + d)}} :
                              \/ test_bit(enemy_occ, c)
                              \/ c = g.en_passant_target}}
    IN  UNION {forward(sq, Row(sq), Col(sq)) \cup captures(sq, Row(sq), Col(sq))
                 : sq \in pawns}

KnightOffsets ==
    {<<-2, -1>>, <<-1, -2>>, <<1, -2>>, <<2, -1>>,
     <<2, 1>>, <<1, 2>>, <<-1, 2>>, <<-2, 1>>}

\* the loop shared by the knight generator and the king's adjacent squares
StepMoves(g, is_white, pc, pieces, offsets) ==
    LET opponent_occupancy == IF is_white THEN get_black_occupancy(g)
                                          ELSE get_white_occupancy(g)
        own_occupancy == IF is_white THEN get_white_occupancy(g)
                                     ELSE get_black_occupancy(g)
        targets(row, col) ==
            {coords_to_square(row + o[1], col + o[2]) :
               o \in {x \in offsets : in_bounds(row + x[1], col + x[2])}}
    IN  UNION {
          {Move(pc, sq, new_sq, test_bit(opponent_occupancy, new_sq), FALSE) :
             new_sq \in {t \in targets(Row(sq), Col(sq)) :
                            ~test_bit(own_occupancy, t)}}
          : sq \in pieces}

\* the knight generator stepping to the four neighbouring squares
generate_knight_moves_one_step(g, is_white) ==
    StepMoves(g, is_white, IF is_white THEN "wN" ELSE "bN",
              IF is_white THEN g.whiteKnights ELSE g.blackKnights,
              {<<-1, 0>>, <<1, 0>>, <<0, -1>>, <<0, 1>>})

generate_knight_moves(g, is_white) ==
    StepMoves(g, is_white, IF is_white THEN "wN" ELSE "bN",
              IF is_white THEN g.whiteKnights ELSE g.blackKnights,
              KnightOffsets)

BishopDirections == {<<-1, -1>>, <<-1, 1>>, <<1, -1>>, <<1, 1>>}

RookDirections == {<<-1, 0>>, <<1, 0>>, <<0, -1>>, <<0, 1>>}

QueenDirections == BishopDirections \cup RookDirections

\* the while loop of the bishop, rook and queen generators: the ray that
\* enters (new_row, new_col) in direction d stops before an own piece and
\* on an enemy piece
\* Ray without the break after a capture: the ray goes on behind an enemy
\* piece
RECURSIVE Ray_through_captures(_, _, _, _, _, _, _)
Ray_through_captures(own_occupancy, opponent_occupancy, pc, sq, new_row, new_col, d) ==
    IF ~in_bounds(new_row, new_col) THEN {}
    ELSE LET new_sq == coords_to_square(new_row, new_col)
         IN  IF test_bit(own_occupancy, new_sq) THEN {}
             ELSE {Move(pc, sq, new_sq,
                        test_bit(opponent_occupancy, new_sq), FALSE)}
                  \cup Ray_through_captures(own_occupancy,
                                            opponent_occupancy, pc, sq,
                                            new_row + d[1], new_col + d[2], d)

RECURSIVE Ray(_, _, _, _, _, _, _)
Ray(own_occupancy, opponent_occupancy, pc, sq, new_row, new_col, d) ==
    IF ~in_bounds(new_row, new_col) THEN {}
    ELSE LET new_sq == coords_to_square(new_row, new_col)
         IN  IF test_bit(own_occupancy, new_sq) THEN {}
             ELSE {Move(pc, sq, new_sq,
                        test_bit(opponent_occupancy, new_sq), FALSE)}
                  \cup (IF test_bit(opponent_occupancy, new_sq) THEN {}
                        ELSE Ray(own_occupancy, opponent_occupancy, pc, sq,
                                 new_row + d[1], new_col + d[2], d))

\* the loops over the pieces and the directions
RayMoves(g, is_white, pc, pieces, directions) ==
    LET opponent_occupancy == IF is_white THEN get_black_occupancy(g)
                                          ELSE get_white_occupancy(g)
        own_occupancy == IF is_white THEN get_white_occupancy(g)
                                     ELSE get_black_occupancy(g)
    IN  UNION {
          UNION {Ray(own_occupancy, opponent_occupancy, pc, sq,
                     Row(sq) + d[1], Col(sq) + d[2], d) : d \in directions}
          : sq \in pieces}

generate_bishop_moves(g, is_white) ==
    RayMoves(g, is_white, IF is_white THEN "wB" ELSE "bB",
             IF is_white THEN g.whiteBishops ELSE g.blackBishops,
             BishopDirections)

generate_rook_moves(g, is_white) ==
    RayMoves(g, is_white, IF is_white THEN "wR" ELSE "bR",
             IF is_white THEN g.whiteRooks ELSE g.blackRooks,
             RookDirections)

generate_queen_moves(g, is_white) ==
    RayMoves(g, is_white, IF is_white THEN "wQ" ELSE "bQ",
             IF is_white THEN g.whiteQueen ELSE g.blackQueen,
             QueenDirections)

\* squares of row `row` in columns lo..hi-1 that hold a piece: the any(...)
\* of the castling conditions
AnyOccupied(g, row, lo, hi) ==
    \E c \in lo..(hi - 1) : test_bit(get_occupancy(g), coords_to_square(row, c))

KingOffsets ==
    {<<-1, -1>>, <<-1, 0>>, <<-1, 1>>, <<0, -1>>,
     <<0, 1>>, <<1, -1>>, <<1, 0>>, <<1, 1>>}

\* the castling part of generate_king_moves for the king on sq, with the
\* rook flags ignored
castle_moves_ignoring_rooks(g, is_white, sq) ==
    IF is_white /\ ~g.whiteKingMoved
    THEN (IF ~AnyOccupied(g, 7, 5, 7)
          THEN {Move("wK", sq, coords_to_square(7, 6), FALSE, TRUE)}
          ELSE {})
         \cup
         (IF ~AnyOccupied(g, 7, 1, 4)
          THEN {Move("wK", sq, coords_to_square(7, 2), FALSE, TRUE)}
          ELSE {})
    ELSE IF ~is_white /\ ~g.blackKingMoved
    THEN (IF ~AnyOccupied(g, 0, 5, 7)
          THEN {Move("bK", sq, coords_to_square(0, 6), FALSE, TRUE)}
          ELSE {})
         \cup
         (IF ~AnyOccupied(g, 0, 1, 4)
          THEN {Move("bK", sq, coords_to_square(0, 2), FALSE, TRUE)}
          ELSE {})
    ELSE {}

\* the castling part of generate_king_moves for the king on sq
castle_moves(g, is_white, sq) ==
    IF is_white /\ ~g.whiteKingMoved
    THEN (IF ~g.whiteRookHMoved /\ ~AnyOccupied(g, 7, 5, 7)
          THEN {Move("wK", sq, coords_to_square(7, 6), FALSE, TRUE)}
          ELSE {})
         \cup
         (IF ~g.whiteRookAMoved /\ ~AnyOccupied(g, 7, 1, 4)
          THEN {Move("wK", sq, coords_to_square(7, 2), FALSE, TRUE)}
          ELSE {})
    ELSE IF ~is_white /\ ~g.blackKingMoved
    THEN (IF ~g.blackRookHMoved /\ ~AnyOccupied(g, 0, 5, 7)
          THEN {Move("bK", sq, coords_to_square(0, 6), FALSE, TRUE)}
          ELSE {})
         \cup
         (IF ~g.blackRookAMoved /\ ~AnyOccupied(g, 0, 1, 4)
          THEN {Move("bK", sq, coords_to_square(0, 2), FALSE, TRUE)}
          ELSE {})
    ELSE {}

generate_king_moves(g, is_white) ==
    LET king == IF is_white THEN g.whiteKing ELSE g.blackKing
    IN  StepMoves(g, is_white, IF is_white THEN "wK" ELSE "bK", king,
                  KingOffsets)
        \cup UNION {castle_moves(g, is_white, sq) : sq \in king}

\* ------------------------------------------------------------------
\* chess/drawbacks.py
\* ------------------------------------------------------------------
\* no_knights keeping the black knight moves
no_knights_white_only(g, moves) == {m \in moves : m.piece # "wN"}

\* 'N' not in move.piece
no_knights(g, moves) == {m \in moves : m.piece \notin {"wN", "bN"}}

no_castling(g, moves) == {m \in moves : ~m.isCastle}

\* DRAWBACKS.get(name): the registered names; anything else gives None
DRAWBACKS == {"no_knights", "no_castling"}

ApplyDrawback(name, g, moves) ==
    IF name = "no_knights" THEN no_knights(g, moves)
    ELSE no_castling(g, moves)

\* GameState.prune_moves
prune_moves(g, moves) ==
    IF g.whiteToMove /\ g.white_drawback \in DRAWBACKS
    THEN ApplyDrawback(g.white_drawback, g, moves)
    ELSE IF ~g.whiteToMove /\ g.black_drawback \in DRAWBACKS
    THEN ApplyDrawback(g.black_drawback, g, moves)
    ELSE moves

\* ------------------------------------------------------------------
\* chess/movegen.py: generate_all_moves
\* ------------------------------------------------------------------
\* generate_all_moves without the test of the king bitboard
generate_all_moves_without_king_test(g) ==
    prune_moves(g,
      generate_pawn_moves(g, g.whiteToMove)
      \cup generate_knight_moves(g, g.whiteToMove)
      \cup generate_bishop_moves(g, g.whiteToMove)
      \cup generate_rook_moves(g, g.whiteToMove)
      \cup generate_queen_moves(g, g.whiteToMove)
      \cup generate_king_moves(g, g.whiteToMove))

generate_all_moves(g) ==
    IF g.whiteToMove /\ g.whiteKing = {} THEN {}
    ELSE IF ~g.whiteToMove /\ g.blackKing = {} THEN {}
    ELSE prune_moves(g,
           generate_pawn_moves(g, g.whiteToMove)
           \cup generate_knight_moves(g, g.whiteToMove)
           \cup generate_bishop_moves(g, g.whiteToMove)
           \cup generate_rook_moves(g, g.whiteToMove)
           \cup generate_queen_moves(g, g.whiteToMove)
           \cup generate_king_moves(g, g.whiteToMove))

\* ------------------------------------------------------------------
\* chess/helpers/bitboard_helpers.py
\* ------------------------------------------------------------------
move_piece_on_board(piece, startSq, endSq, g) ==
    CASE piece = "wP" ->
           [g EXCEPT !.whitePawns = set_bit(clear_bit(@, startSq), endSq)]
      [] piece = "wN" ->
           [g EXCEPT !.whiteKnights = set_bit(clear_bit(@, startSq), endSq)]
      [] piece = "wB" ->
           [g EXCEPT !.whiteBishops = set_bit(clear_bit(@, startSq), endSq)]
      [] piece = "wR" ->
           [g EXCEPT !.whiteRooks = set_bit(clear_bit(@, startSq), endSq)]
      [] piece = "wQ" ->
           [g EXCEPT !.whiteQueen = set_bit(clear_bit(@, startSq), endSq)]
      [] piece = "wK" ->
           [g EXCEPT !.whiteKing = set_bit(clear_bit(@, startSq), endSq)]
      [] piece = "bP" ->
           [g EXCEPT !.blackPawns = set_bit(clear_bit(@, startSq), endSq)]
      [] piece = "bN" ->
           [g EXCEPT !.blackKnights = set_bit(clear_bit(@, startSq), endSq)]
      [] piece = "bB" ->
           [g EXCEPT !.blackBishops = set_bit(clear_bit(@, startSq), endSq)]
      [] piece = "bR" ->
           [g EXCEPT !.blackRooks = set_bit(clear_bit(@, startSq), endSq)]
      [] piece = "bQ" ->
           [g EXCEPT !.blackQueen = set_bit(clear_bit(@, startSq), endSq)]
      [] piece = "bK" ->
           [g EXCEPT !.blackKing = set_bit(clear_bit(@, startSq), endSq)]
      [] OTHER -> g

remove_piece_at_square(sq, side_is_white, g) ==
    IF side_is_white
    THEN IF test_bit(g.whitePawns, sq)
           THEN [g EXCEPT !.whitePawns = clear_bit(@, sq)]
         ELSE IF test_bit(g.whiteKnights, sq)
           THEN [g EXCEPT !.whiteKnights = clear_bit(@, sq)]
         ELSE IF test_bit(g.whiteBishops, sq)
           THEN [g EXCEPT !.whiteBishops = clear_bit(@, sq)]
         ELSE IF test_bit(g.whiteRooks, sq)
           THEN [g EXCEPT !.whiteRooks = clear_bit(@, sq)]
         ELSE IF test_bit(g.whiteQueen, sq)
           THEN [g EXCEPT !.whiteQueen = clear_bit(@, sq)]
         ELSE IF test_bit(g.whiteKing, sq)
           THEN [g EXCEPT !.whiteKing = clear_bit(@, sq)]
         ELSE g
    ELSE IF test_bit(g.blackPawns, sq)
           THEN [g EXCEPT !.blackPawns = clear_bit(@, sq)]
         ELSE IF test_bit(g.blackKnights, sq)
           THEN [g EXCEPT !.blackKnights = clear_bit(@, sq)]
         ELSE IF test_bit(g.blackBishops, sq)
           THEN [g EXCEPT !.blackBishops = clear_bit(@, sq)]
         ELSE IF test_bit(g.blackRooks, sq)
           THEN [g EXCEPT !.blackRooks = clear_bit(@, sq)]
         ELSE IF test_bit(g.blackQueen, sq)
           THEN [g EXCEPT !.blackQueen = clear_bit(@, sq)]
         ELSE IF test_bit(g.blackKing, sq)
           THEN [g EXCEPT !.blackKing = clear_bit(@, sq)]
         ELSE g

\* ------------------------------------------------------------------
\* chess/gamestate.py: GameState
\* ------------------------------------------------------------------
EmptyMap == [k \in {} |-> 0]

\* GameState.__init__: empty board.  ghostAttrs tells whether the instance
\* carries the attributes whiteKingGhostSquares and blackKingGhostSquares
\* that _snapshot reads: no line of gamestate.py assigns them, so after
\* construction they are absent unless the host attaches them.
GameState(white_drawback, black_drawback, ghostAttrs) ==
    [whitePawns |-> {}, whiteKnights |-> {}, whiteBishops |-> {},
     whiteRooks |-> {}, whiteQueen |-> {}, whiteKing |-> {},
     blackPawns |-> {}, blackKnights |-> {}, blackBishops |-> {},
     blackRooks |-> {}, blackQueen |-> {}, blackKing |-> {},
     whiteToMove |-> TRUE,
     pawnGhostSquares |-> {}, kingGhostSquares |-> {},
     move_history |-> <<>>,
     whiteKingMoved |-> FALSE, whiteRookAMoved |-> FALSE,
     whiteRookHMoved |-> FALSE,
     blackKingMoved |-> FALSE, blackRookAMoved |-> FALSE,
     blackRookHMoved |-> FALSE,
     en_passant_target |-> NoneSq,
     game_over |-> FALSE,
     white_drawback |-> white_drawback, black_drawback |-> black_drawback,
     halfmove_clock |-> 0,
     repetition_history |-> EmptyMap,
     ghostAttrs |-> ghostAttrs,
     whiteKingGhostSquares |-> {}, blackKingGhostSquares |-> {}]

RowSquares(row) == {coords_to_square(row, col) : col \in 0..7}

init_standard_position(g) ==
    [g EXCEPT
       !.whiteToMove = TRUE,
       !.pawnGhostSquares = {}, !.kingGhostSquares = {},
       !.move_history = <<>>,
       !.whiteKingMoved = FALSE, !.whiteRookAMoved = FALSE,
       !.whiteRookHMoved = FALSE,
       !.blackKingMoved = FALSE, !.blackRookAMoved = FALSE,
       !.blackRookHMoved = FALSE,
       !.en_passant_target = NoneSq,
       !.halfmove_clock = 0,
       !.repetition_history = EmptyMap,
       !.game_over = FALSE,
       !.whitePawns = RowSquares(6),
       !.whiteRooks = {coords_to_square(7, 0), coords_to_square(7, 7)},
       !.whiteKnights = {coords_to_square(7, 1), coords_to_square(7, 6)},
       !.whiteBishops = {coords_to_square(7, 2), coords_to_square(7, 5)},
       !.whiteQueen = {coords_to_square(7, 3)},
       !.whiteKing = {coords_to_square(7, 4)},
       !.blackPawns = RowSquares(1),
       !.blackRooks = {coords_to_square(0, 0), coords_to_square(0, 7)},
       !.blackKnights = {coords_to_square(0, 1), coords_to_square(0, 6)},
       !.blackBishops = {coords_to_square(0, 2), coords_to_square(0, 5)},
       !.blackQueen = {coords_to_square(0, 3)},
       !.blackKing = {coords_to_square(0, 4)}]

\* GameState._snapshot: the 26-tuple, as a record
snapshot(g) ==
    [whitePawns |-> g.whitePawns, whiteKnights |-> g.whiteKnights,
     whiteBishops |-> g.whiteBishops, whiteRooks |-> g.whiteRooks,
     whiteQueen |-> g.whiteQueen, whiteKing |-> g.whiteKing,
     blackPawns |-> g.blackPawns, blackKnights |-> g.blackKnights,
     blackBishops |-> g.blackBishops, blackRooks |-> g.blackRooks,
     blackQueen |-> g.blackQueen, blackKing |-> g.blackKing,
     whiteToMove |-> g.whiteToMove,
     pawnGhostSquares |-> g.pawnGhostSquares,
     whiteKingGhostSquares |-> g.whiteKingGhostSquares,
     blackKingGhostSquares |-> g.blackKingGhostSquares,
     whiteKingMoved |-> g.whiteKingMoved,
     whiteRookAMoved |-> g.whiteRookAMoved,
     whiteRookHMoved |-> g.whiteRookHMoved,
     blackKingMoved |-> g.blackKingMoved,
     blackRookAMoved |-> g.blackRookAMoved,
     blackRookHMoved |-> g.blackRookHMoved,
     en_passant_target |-> g.en_passant_target,
     halfmove_clock |-> g.halfmove_clock,
     repetition_history |-> g.repetition_history,
     game_over |-> g.game_over]

\* GameState._restore_snapshot
restore_snapshot(g, snap) ==
    [g EXCEPT
       !.whitePawns = snap.whitePawns, !.whiteKnights = snap.whiteKnights,
       !.whiteBishops = snap.whiteBishops, !.whiteRooks = snap.whiteRooks,
       !.whiteQueen = snap.whiteQueen, !.whiteKing = snap.whiteKing,
       !.blackPawns = snap.blackPawns, !.blackKnights = snap.blackKnights,
       !.blackBishops = snap.blackBishops, !.blackRooks = snap.blackRooks,
       !.blackQueen = snap.blackQueen, !.blackKing = snap.blackKing,
       !.whiteToMove = snap.whiteToMove,
       !.pawnGhostSquares = snap.pawnGhostSquares,
       !.whiteKingGhostSquares = snap.whiteKingGhostSquares,
       !.blackKingGhostSquares = snap.blackKingGhostSquares,
       !.whiteKingMoved = snap.whiteKingMoved,
       !.whiteRookAMoved = snap.whiteRookAMoved,
       !.whiteRookHMoved = snap.whiteRookHMoved,
       !.blackKingMoved = snap.blackKingMoved,
       !.blackRookAMoved = snap.blackRookAMoved,
       !.blackRookHMoved = snap.blackRookHMoved,
       !.en_passant_target = snap.en_passant_target,
       !.halfmove_clock = snap.halfmove_clock,
       !.repetition_history = snap.repetition_history,
       !.game_over = snap.game_over]

\* GameState._opposite_side
opposite_side(g) == ~g.whiteToMove

\* GameState._king_castle_path: the squares from startSq towards endSq,
\* without endSq and without the last one before it
king_castle_path(startSq, endSq) ==
    LET step == IF endSq > startSq THEN 1 ELSE -1
        n == IF endSq > startSq THEN endSq - startSq ELSE startSq - endSq
    IN  {startSq + step * i : i \in 0..(n - 2)}

\* the ghost squares a castle sets (make_move step 7)
CastleGhostSquares(move) ==
    king_castle_path(move.startSq, move.endSq) \cup {move.startSq, move.endSq}

\* GameState._move_rook_for_castle
move_rook_for_castle(g, move) ==
    LET start == square_to_coords(move.startSq)
        end == square_to_coords(move.endSq)
        relocate(bb, oldSq, newSq) ==
            IF test_bit(bb, oldSq) THEN set_bit(clear_bit(bb, oldSq), newSq)
            ELSE bb
    IN  IF move.piece = WHITE_KING
        THEN IF start = <<7, 4>> /\ end = <<7, 6>>
             THEN [g EXCEPT
                     !.whiteRooks = relocate(@, coords_to_square(7, 7),
                                             coords_to_square(7, 5)),
                     !.whiteRookHMoved = TRUE]
             ELSE IF start = <<7, 4>> /\ end = <<7, 2>>
             THEN [g EXCEPT
                     !.whiteRooks = relocate(@, coords_to_square(7, 0),
                                             coords_to_square(7, 3)),
                     !.whiteRookAMoved = TRUE]
             ELSE g
        ELSE IF move.piece = BLACK_KING
        THEN IF start = <<0, 4>> /\ end = <<0, 6>>
             THEN [g EXCEPT
                     !.blackRooks = relocate(@, coords_to_square(0, 7),
                                             coords_to_square(0, 5)),
                     !.blackRookHMoved = TRUE]
             ELSE IF start = <<0, 4>> /\ end = <<0, 2>>
             THEN [g EXCEPT
                     !.blackRooks = relocate(@, coords_to_square(0, 0),
                                             coords_to_square(0, 3)),
                     !.blackRookAMoved = TRUE]
             ELSE g
        ELSE g

\* _update_move_flags without the rook branches
update_move_flags_kings_only(g, move) ==
    IF move.piece = WHITE_KING THEN [g EXCEPT !.whiteKingMoved = TRUE]
    ELSE IF move.piece = BLACK_KING THEN [g EXCEPT !.blackKingMoved = TRUE]
    ELSE g

\* GameState._update_move_flags
update_move_flags(g, move) ==
    IF move.piece = WHITE_KING THEN [g EXCEPT !.whiteKingMoved = TRUE]
    ELSE IF move.piece = BLACK_KING THEN [g EXCEPT !.blackKingMoved = TRUE]
    ELSE IF move.piece = WHITE_ROOK
    THEN IF move.startSq = coords_to_square(7, 0)
         THEN [g EXCEPT !.whiteRookAMoved = TRUE]
         ELSE IF move.startSq = coords_to_square(7, 7)
         THEN [g EXCEPT !.whiteRookHMoved = TRUE]
         ELSE g
    ELSE IF move.piece = BLACK_ROOK
    THEN IF move.startSq = coords_to_square(0, 0)
         THEN [g EXCEPT !.blackRookAMoved = TRUE]
         ELSE IF move.startSq = coords_to_square(0, 7)
         THEN [g EXCEPT !.blackRookHMoved = TRUE]
         ELSE g
    ELSE g

\* the key of repetition_history: 12 bitboards and the side to move
board_state(g) ==
    <<g.whitePawns, g.whiteKnights, g.whiteBishops, g.whiteRooks,
      g.whiteQueen, g.whiteKing,
      g.blackPawns, g.blackKnights, g.blackBishops, g.blackRooks,
      g.blackQueen, g.blackKing,
      g.whiteToMove>>

\* _update_repetition_history storing 1 for the position whatever its count
update_repetition_history_uncounted(g) ==
    [g EXCEPT !.repetition_history = (board_state(g) :> 1) @@ @]

\* GameState._update_repetition_history
update_repetition_history(g) ==
    IF board_state(g) \in DOMAIN g.repetition_history
    THEN [g EXCEPT !.repetition_history[board_state(g)] = @ + 1]
    ELSE [g EXCEPT !.repetition_history = (board_state(g) :> 1) @@ @]

\* self.repetition_history.get(board_state, 0)
RepetitionCount(g) ==
    IF board_state(g) \in DOMAIN g.repetition_history
    THEN g.repetition_history[board_state(g)]
    ELSE 0

\* GameState._is_threefold_repetition
is_threefold_repetition(g) == RepetitionCount(g) >= 3

\* _has_legal_moves answering yes without generating
has_legal_moves_assumed(g) == TRUE

\* GameState._has_legal_moves
has_legal_moves(g) == generate_all_moves(g) # {}

\* GameState._end_game
end_game(g) == [g EXCEPT !.game_over = TRUE]

\* make_move step 4: the square a capturing move empties.  A pawn landing
\* on en_passant_target takes the piece one rank behind the destination.
capture_square(g, move) ==
    IF move.piece \in {"wP", "bP"} /\ move.endSq = g.en_passant_target
    THEN move.endSq + (IF move.piece = "wP" THEN 8 ELSE -8)
    ELSE move.endSq

\* make_move step 4: captures and the halfmove clock
handle_captures(g, move) ==
    IF move.isCapture
    THEN [remove_piece_at_square(capture_square(g, move), opposite_side(g), g)
            EXCEPT !.halfmove_clock = 0]
    ELSE [g EXCEPT !.halfmove_clock = @ + 1]

\* make_move step 7: ghost squares and the rook of a castle
handle_castling(g, move) ==
    IF move.isCastle
    THEN move_rook_for_castle(
           [g EXCEPT !.kingGhostSquares = @ \cup CastleGhostSquares(move)],
           move)
    ELSE g

Abs(x) == IF x < 0 THEN -x ELSE x

\* make_move step 8: the en passant target
handle_en_passant_target(g, move) ==
    IF move.piece \in {"wP", "bP"} /\ Abs(move.startSq - move.endSq) = 16
    THEN LET direction == IF move.piece = "wP" THEN -8 ELSE 8
         IN  [g EXCEPT !.en_passant_target = move.endSq + direction,
                       !.pawnGhostSquares =
                           set_bit(@, move.endSq + direction)]
    ELSE [g EXCEPT !.en_passant_target = NoneSq]

\* make_move steps 11-14 without step 13, the test of the halfmove clock
check_game_end_without_clock(g) ==
    IF \/ (~g.whiteToMove /\ g.whiteKing = {})
       \/ (g.whiteToMove /\ g.blackKing = {})
    THEN [g EXCEPT !.game_over = TRUE]
    ELSE LET g12 == update_repetition_history(g)
             g12b == IF is_threefold_repetition(g12) THEN end_game(g12)
                     ELSE g12
         IN  IF ~has_legal_moves(g12b) THEN end_game(g12b) ELSE g12b

\* make_move steps 11-14: missing king, repetition, fifty moves, no moves
check_game_end(g) ==
    IF \/ (~g.whiteToMove /\ g.whiteKing = {})
       \/ (g.whiteToMove /\ g.blackKing = {})
    THEN [g EXCEPT !.game_over = TRUE]
    ELSE LET g12 == update_repetition_history(g)
             g12b == IF is_threefold_repetition(g12) THEN end_game(g12)
                     ELSE g12
             g13 == IF g12b.halfmove_clock >= 50 THEN end_game(g12b)
                    ELSE g12b
         IN  IF ~has_legal_moves(g13) THEN end_game(g13) ELSE g13

\* make_move step 3: the short circuit on a ghost square
king_en_passant(g, move) ==
    LET g3 == IF g.whiteToMove
              THEN [g EXCEPT !.blackKing = clear_bit(@, move.endSq)]
              ELSE [g EXCEPT !.whiteKing = clear_bit(@, move.endSq)]
    IN  [g3 EXCEPT !.game_over = TRUE, !.whiteToMove = ~@]

\* make_move after the game_over test, when _snapshot succeeds
apply_move(g, move) ==
    LET g1 == [g EXCEPT !.move_history =
                   Append(@, [move |-> move, snap |-> snapshot(g)])]
        g2 == [g1 EXCEPT !.kingGhostSquares = {}]
    IN  IF test_bit(g2.kingGhostSquares, move.endSq)
        THEN king_en_passant(g2, move)
        ELSE LET g4 == handle_captures(g2, move)
                 g5 == move_piece_on_board(move.piece, move.startSq,
                                           move.endSq, g4)
                 g6 == update_move_flags(g5, move)
                 g7 == handle_castling(g6, move)
                 g8 == handle_en_passant_target(g7, move)
                 g9 == [g8 EXCEPT !.whiteToMove = ~@]
                 g10 == [g9 EXCEPT !.kingGhostSquares = {}]
             IN  check_game_end(g10)

\* how a make_move call ends: "rejected" on a finished game, "raised" when
\* _snapshot reads an attribute the instance does not have (AttributeError,
\* before anything is changed), otherwise "applied"
make_outcome(g, move) ==
    IF g.game_over THEN "rejected"
    ELSE IF ~g.ghostAttrs THEN "raised"
    ELSE "applied"

\* make_move without the game_over test
make_move_on_finished_game(g, move) ==
    IF ~g.ghostAttrs THEN g
    ELSE apply_move(g, move)

\* GameState.make_move
make_move(g, move) ==
    IF g.game_over THEN g
    ELSE IF ~g.ghostAttrs THEN g
    ELSE apply_move(g, move)

\* how an unmake_move call ends
unmake_outcome(g, move) ==
    IF g.move_history = <<>> THEN "empty"
    ELSE IF MoveNe(g.move_history[Len(g.move_history)].move, move)
    THEN "mismatch"
    ELSE "restored"

\* unmake_move unwinding the history down to the entry of the move it is
\* given, whatever has been pushed above it
unmake_move_unwinding(g, move) ==
    LET at == {i \in 1..Len(g.move_history) :
                  ~MoveNe(g.move_history[i].move, move)}
    IN  IF at = {} THEN g
        ELSE LET i == CHOOSE x \in at : \A y \in at : y <= x
             IN  restore_snapshot(
                   [g EXCEPT !.move_history = SubSeq(@, 1, i - 1)],
                   g.move_history[i].snap)

\* unmake_move restoring the popped snapshot without comparing the moves
unmake_move_unchecked(g, move) ==
    IF g.move_history = <<>> THEN g
    ELSE restore_snapshot(
           [g EXCEPT !.move_history = SubSeq(@, 1, Len(@) - 1)],
           g.move_history[Len(g.move_history)].snap)

\* GameState.unmake_move: pop, then compare, then restore
unmake_move(g, move) ==
    IF g.move_history = <<>> THEN g
    ELSE LET top == g.move_history[Len(g.move_history)]
             popped == [g EXCEPT !.move_history =
                            SubSeq(@, 1, Len(@) - 1)]
         IN  IF MoveNe(top.move, move) THEN popped
             ELSE restore_snapshot(popped, top.snap)

\* ------------------------------------------------------------------
\* The caller: main.py creates one GameState, sets up the standard
\* position, and makes moves it picked from generate_all_moves; the
\* searches unmake them.  The caller follows one of a few scripted lines
\* and may leave the line for MaxFree moves of its own choice.  After an
\* unmake_move that did not restore a non-empty history (desync) the
\* caller starts over with init_standard_position.
\* ------------------------------------------------------------------
a1 == coords_to_square(7, 0)
b1 == coords_to_square(7, 1)
c1 == coords_to_square(7, 2)
d1 == coords_to_square(7, 3)
e1 == coords_to_square(7, 4)
f1 == coords_to_square(7, 5)
g1 == coords_to_square(7, 6)
h1 == coords_to_square(7, 7)
a8 == coords_to_square(0, 0)
b8 == coords_to_square(0, 1)
c8 == coords_to_square(0, 2)
d8 == coords_to_square(0, 3)
e8 == coords_to_square(0, 4)
f8 == coords_to_square(0, 5)
g8 == coords_to_square(0, 6)
h8 == coords_to_square(0, 7)

\* algebraic square: file 0..7 (a..h), rank 1..8
Sq(file, rank) == coords_to_square(8 - rank, file)

Lines ==
    { \* knight shuffle: threefold repetition
      << <<g1, Sq(5, 3)>>, <<g8, Sq(5, 6)>>, <<Sq(5, 3), g1>>,
         <<Sq(5, 6), g8>>, <<g1, Sq(5, 3)>>, <<g8, Sq(5, 6)>>,
         <<Sq(5, 3), g1>>, <<Sq(5, 6), g8>>, <<g1, Sq(5, 3)>> >>,
      \* white castles short, a black knight lands on e1
      << <<g1, Sq(5, 3)>>, <<b8, Sq(2, 6)>>, <<Sq(4, 2), Sq(4, 3)>>,
         <<Sq(2, 6), Sq(1, 4)>>, <<f1, Sq(4, 2)>>, <<Sq(1, 4), Sq(3, 3)>>,
         <<e1, g1>>, <<Sq(3, 3), e1>> >>,
      \* a double pawn advance towards an occupied square
      << <<g1, Sq(5, 3)>>, <<Sq(3, 7), Sq(3, 6)>>, <<Sq(5, 3), Sq(4, 5)>>,
         <<Sq(0, 7), Sq(0, 6)>>, <<Sq(4, 2), Sq(4, 4)>>,
         <<Sq(3, 6), Sq(4, 5)>> >>,
      \* the queen takes the black king
      << <<Sq(4, 2), Sq(4, 4)>>, <<Sq(5, 7), Sq(5, 6)>>,
         <<d1, Sq(7, 5)>>, <<Sq(0, 7), Sq(0, 6)>>, <<Sq(7, 5), e8>> >>,
      \* both sides castle long
      << <<Sq(3, 2), Sq(3, 4)>>, <<Sq(3, 7), Sq(3, 5)>>,
         <<b1, Sq(2, 3)>>, <<b8, Sq(2, 6)>>,
         <<c1, Sq(5, 4)>>, <<c8, Sq(5, 5)>>,
         <<d1, Sq(3, 2)>>, <<d8, Sq(3, 7)>>,
         <<e1, c1>>, <<e8, c8>> >>,
      \* the h1 rook leaves and returns, black castles short
      << <<g1, Sq(5, 3)>>, <<g8, Sq(5, 6)>>, <<Sq(4, 2), Sq(4, 3)>>,
         <<Sq(4, 7), Sq(4, 6)>>, <<f1, Sq(4, 2)>>, <<f8, Sq(4, 7)>>,
         <<h1, g1>>, <<e8, g8>>, <<g1, h1>>, <<Sq(0, 7), Sq(0, 6)>> >>
    }

\* the constructor arguments the caller uses
DrawbackChoices == {<<"None", "None">>}

VARIABLES gs, off, desync, last, ai

vars == <<gs, off, desync, last, ai>>

\* the Python None a search returns instead of a move
NoMove == Move("None", NoneSq, NoneSq, FALSE, FALSE)

\* ai is the search running on gs, if any: the engine object's fields,
\* the local variables of its root function (find_best_move, select_move),
\* the frames of its minimax calls and its position in the code (pc).
\* NoSearch is its value while the caller alone uses gs.
NoSearch ==
    [engine |-> "none", pc |-> "idle", max_depth |-> 0,
     time_limit |-> "None", expired |-> FALSE, root |-> <<>>,
     root_maximizing |-> FALSE, root_moves |-> <<>>, depth |-> 0, i |-> 0,
     alpha |-> 0, beta |-> 0, best_score |-> 0, best_move |-> NoMove,
     best_move_so_far |-> NoMove, broke |-> "none", stack |-> <<>>,
     ret |-> 0, result |-> NoMove, current_evaluation |-> 0,
     analyzed_positions |-> 0, yields |-> 0, host_move |-> NoMove]

\* the Move object the caller hands to make_move: it came out of
\* generate_all_moves and will sit on the history at this depth
Handed(g, m) == [m EXCEPT !.id = Len(g.move_history) + 1]

\* the moves on the history, as (startSq, endSq) pairs
Played(g) ==
    [i \in 1..Len(g.move_history) |->
        <<g.move_history[i].move.startSq, g.move_history[i].move.endSq>>]

\* the next moves of the scripted lines the game has followed so far
BookMoves(g) ==
    {l[Len(g.move_history) + 1] :
        l \in {x \in Lines : /\ Len(x) > Len(g.move_history)
                             /\ SubSeq(x, 1, Len(g.move_history)) = Played(g)}}

Init ==
    /\ \E d \in DrawbackChoices, attrs \in BOOLEAN :
          gs = GameState(d[1], d[2], attrs)
    /\ off = 0
    /\ desync = FALSE
    /\ last = [op |-> "construct", outcome |-> "none", arg |-> "none"]
    /\ ai = NoSearch

\* gameState.init_standard_position()
InitStandardPosition ==
    /\ gs' = init_standard_position(gs)
    /\ off' = 0
    /\ desync' = FALSE
    /\ last' = [op |-> "init_standard_position", outcome |-> "none",
                arg |-> "none"]
    /\ UNCHANGED ai

\* the caller's bookkeeping around gs.make_move(m)
AfterMake(m, arg) ==
    /\ gs' = make_move(gs, Handed(gs, m))
    /\ last' = [op |-> "make_move", outcome |-> make_outcome(gs, m),
                arg |-> arg]
    /\ UNCHANGED <<desync, ai>>

\* make_move of the next move of a scripted line
PlayBook ==
    /\ ~desync /\ off = 0
    /\ \E m \in generate_all_moves(gs) :
          /\ <<m.startSq, m.endSq>> \in BookMoves(gs)
          /\ AfterMake(m, "book")
    /\ UNCHANGED off

\* make_move of any generated move
FreeMove ==
    /\ ~desync /\ off < MaxFree
    /\ \E m \in generate_all_moves(gs) :
          /\ AfterMake(m, "free")
          /\ off' = IF make_outcome(gs, m) = "applied" THEN off + 1 ELSE off

\* the caller's bookkeeping around gs.unmake_move(move)
AfterUnmake(move, arg) ==
    /\ gs' = unmake_move(gs, move)
    /\ last' = [op |-> "unmake_move", outcome |-> unmake_outcome(gs, move),
                arg |-> arg]
    /\ off' = IF unmake_outcome(gs, move) = "restored" /\ off > 0
              THEN off - 1 ELSE off
    /\ desync' = (desync \/ unmake_outcome(gs, move) = "mismatch")
    /\ UNCHANGED ai

\* unmake_move with the object on top of the history
UnmakeSame ==
    /\ ~desync
    /\ gs.move_history # <<>>
    /\ AfterUnmake(gs.move_history[Len(gs.move_history)].move, "same")

\* unmake_move with another object that has the same field values
UnmakeCopy ==
    /\ ~desync
    /\ gs.move_history # <<>>
    /\ AfterUnmake([gs.move_history[Len(gs.move_history)].move
                        EXCEPT !.id = 0], "copy")

\* unmake_move with a move that is not the one on top: one of the moves
\* generate_all_moves returns now
UnmakeOther ==
    /\ ~desync
    /\ LET moves == generate_all_moves(gs)
       IN  /\ moves # {}
           /\ AfterUnmake(CHOOSE m \in moves : TRUE, "other")

Next ==
    \/ InitStandardPosition
    \/ PlayBook
    \/ FreeMove
    \/ UnmakeSame
    \/ UnmakeCopy
    \/ UnmakeOther

Spec == Init /\ [][Next]_vars

\* ------------------------------------------------------------------
\* A long game without captures and pawn moves: each side walks one
\* knight round a closed route (8 and 6 squares), so that no position
\* comes up a third time before the halfmove clock reaches 50.  The caller
\* follows the routes and may leave them, for MaxFree moves, once the
\* clock is close to 50.
\* ------------------------------------------------------------------
WhiteKnightRoute ==
    <<g1, Sq(5, 3), Sq(4, 5), Sq(6, 4), Sq(5, 6), Sq(4, 4), Sq(6, 5),
      Sq(7, 3)>>

BlackKnightRoute == <<b8, Sq(0, 6), Sq(2, 5), Sq(1, 3), Sq(0, 5), Sq(2, 6)>>

\* the k-th step (k = 1, 2, ...) along a closed route
RouteStep(route, k) ==
    <<route[((k - 1) % Len(route)) + 1], route[(k % Len(route)) + 1]>>

\* the i-th ply of the long game, as a (startSq, endSq) pair
QuietMove(i) ==
    IF i % 2 = 1 THEN RouteStep(WhiteKnightRoute, (i + 1) \div 2)
    ELSE RouteStep(BlackKnightRoute, i \div 2)

\* the clock value from which the caller tries moves of its own
NearFifty == 47

\* make_move of the next ply of the long game
PlayQuiet ==
    /\ ~desync /\ off = 0
    /\ Played(gs) = [i \in 1..Len(gs.move_history) |-> QuietMove(i)]
    /\ \E m \in generate_all_moves(gs) :
          /\ <<m.startSq, m.endSq>> = QuietMove(Len(gs.move_history) + 1)
          /\ AfterMake(m, "book")
    /\ UNCHANGED off

\* make_move of any generated move late in the long game
FreeLate ==
    /\ ~desync /\ off < MaxFree
    /\ gs.halfmove_clock >= NearFifty
    /\ \E m \in generate_all_moves(gs) :
          /\ AfterMake(m, "free")
          /\ off' = IF make_outcome(gs, m) = "applied" THEN off + 1 ELSE off

NextFifty ==
    \/ InitStandardPosition
    \/ PlayQuiet
    \/ FreeLate
    \/ UnmakeSame
    \/ UnmakeCopy
    \/ UnmakeOther

SpecFifty == Init /\ [][NextFifty]_vars

\* ------------------------------------------------------------------
\* Games of a GameState constructed with the 'no_knights' drawback for one
\* side: GameState(white_drawback='no_knights') and
\* GameState(black_drawback='no_knights').
\* ------------------------------------------------------------------
DrawbackArgs == {<<"no_knights", "None">>, <<"None", "no_knights">>}

InitDrawbacks ==
    /\ \E d \in DrawbackArgs, attrs \in BOOLEAN :
          gs = GameState(d[1], d[2], attrs)
    /\ off = 0
    /\ desync = FALSE
    /\ last = [op |-> "construct", outcome |-> "none", arg |-> "none"]
    /\ ai = NoSearch

SpecDrawbacks == InitDrawbacks /\ [][Next]_vars

\* ------------------------------------------------------------------
\* Two more games the caller may follow, leaving them for MaxFree moves:
\* a rook is taken on its home square before its king castles towards it
\* (1.Nf3 Nf6 2.e3 Ng4 3.Be2 Nxf2 4.a3 Nxh1 5.O-O), and a pawn advances
\* two squares to stand in front of an enemy pawn that has a neighbour
\* (1.Nf3 e5 2.Ng5 d6 3.Ne6 a6 4.e4 dxe5).
\* ------------------------------------------------------------------
RookTaken ==
    << <<g1, Sq(5, 3)>>, <<g8, Sq(5, 6)>>, <<Sq(4, 2), Sq(4, 3)>>,
       <<Sq(5, 6), Sq(6, 4)>>, <<f1, Sq(4, 2)>>, <<Sq(6, 4), Sq(5, 2)>>,
       <<Sq(0, 2), Sq(0, 3)>>, <<Sq(5, 2), h1>>, <<e1, g1>> >>

\* 1.Nf3 e5 2.Ng5 d6 3.Ne6 a6 4.e4 dxe5: after 4.e4 the en-passant target
\* is e5, where black's own pawn stands, with a white knight behind it
\* on e6
KnightBehindTarget == << <<g1, Sq(5, 3)>>, <<Sq(4, 7), Sq(4, 5)>>,
   <<Sq(5, 3), Sq(6, 5)>>, <<Sq(3, 7), Sq(3, 6)>>, <<Sq(6, 5), Sq(4, 6)>>,
   <<Sq(0, 7), Sq(0, 6)>>, <<Sq(4, 2), Sq(4, 4)>>, <<Sq(3, 6), Sq(4, 5)>> >>

MoreLines == {RookTaken, KnightBehindTarget}

\* make_move of the next ply of one of these games
PlayMore ==
    /\ ~desync /\ off = 0
    /\ \E line \in MoreLines :
          /\ Len(gs.move_history) < Len(line)
          /\ Played(gs) = SubSeq(line, 1, Len(gs.move_history))
          /\ \E m \in generate_all_moves(gs) :
                /\ <<m.startSq, m.endSq>> = line[Len(gs.move_history) + 1]
                /\ AfterMake(m, "book")
    /\ UNCHANGED off

NextMore ==
    \/ InitStandardPosition
    \/ PlayMore
    \/ FreeMove
    \/ UnmakeSame
    \/ UnmakeCopy
    \/ UnmakeOther

SpecMore == Init /\ [][NextMore]_vars

\* ------------------------------------------------------------------
\* The caller asks for the moves: allMoves = generate_all_moves(gameState)
\* (main.py:253, 299), in games with and without a drawback.
\* ------------------------------------------------------------------
\* generate_all_moves that takes the en-passant target off the state once
\* it has offered the capture
generate_all_moves_state_clearing_target(g) ==
    [g EXCEPT !.en_passant_target = NoneSq]

\* the GameState after generate_all_moves(game_state) has returned: the
\* function, the six generators, prune_moves and the drawback filters read
\* game_state and build new lists; none of their statements assigns to a
\* field of game_state or changes a container it holds
generate_all_moves_state(g) == g

GenerateAllMoves ==
    /\ gs' = generate_all_moves_state(gs)
    /\ last' = [op |-> "generate_all_moves", outcome |-> "none",
                arg |-> "none"]
    /\ UNCHANGED <<off, desync, ai>>

NextGenerate ==
    \/ InitStandardPosition
    \/ PlayBook
    \/ FreeMove
    \/ GenerateAllMoves
    \/ UnmakeSame
    \/ UnmakeCopy
    \/ UnmakeOther

SpecGenerate == InitDrawbacks /\ [][NextGenerate]_vars

\* ------------------------------------------------------------------
\* The list generate_all_moves returns.  The generators above give its
\* members; ListIndex gives the position of a move in the list: pawns,
\* knights, bishops, rooks, queen, king, each generator scanning the
\* squares 0..63 and, per piece, its offsets or directions in the order
\* of the source.
\* ------------------------------------------------------------------
knight_moves ==
    <<<<-2, -1>>, <<-1, -2>>, <<1, -2>>, <<2, -1>>,
      <<2, 1>>, <<1, 2>>, <<-1, 2>>, <<-2, 1>>>>

bishop_directions == <<<<-1, -1>>, <<-1, 1>>, <<1, -1>>, <<1, 1>>>>

rook_directions == <<<<-1, 0>>, <<1, 0>>, <<0, -1>>, <<0, 1>>>>

queen_directions == bishop_directions \o rook_directions

king_moves ==
    <<<<-1, -1>>, <<-1, 0>>, <<-1, 1>>, <<0, -1>>,
      <<0, 1>>, <<1, -1>>, <<1, 0>>, <<1, 1>>>>

Sign(x) == IF x < 0 THEN -1 ELSE IF x > 0 THEN 1 ELSE 0

\* position of offset d in the list offsets
OffsetIndex(offsets, d) == CHOOSE i \in 1..Len(offsets) : offsets[i] = d

\* position of a move among the moves generated for its piece
LocalIndex(m) ==
    LET dr == Row(m.endSq) - Row(m.startSq)
        dc == Col(m.endSq) - Col(m.startSq)
        ray(directions) ==
            8 * OffsetIndex(directions, <<Sign(dr), Sign(dc)>>)
              + (IF Abs(dr) > Abs(dc) THEN Abs(dr) ELSE Abs(dc))
    IN  IF m.piece \in {"wP", "bP"}
        THEN (IF dc = -1 THEN 2 ELSE IF dc = 1 THEN 3
              ELSE IF Abs(dr) = 2 THEN 1 ELSE 0)
        ELSE IF m.piece \in {"wN", "bN"}
        THEN OffsetIndex(knight_moves, <<dr, dc>>)
        ELSE IF m.piece \in {"wB", "bB"} THEN ray(bishop_directions)
        ELSE IF m.piece \in {"wR", "bR"} THEN ray(rook_directions)
        ELSE IF m.piece \in {"wQ", "bQ"} THEN ray(queen_directions)
        ELSE IF m.isCastle
        THEN (IF Col(m.endSq) = 6 THEN 9 ELSE 10)
        ELSE OffsetIndex(king_moves, <<dr, dc>>)

\* the order of the generators in generate_all_moves
GeneratorIndex(piece) ==
    IF piece \in {"wP", "bP"} THEN 0
    ELSE IF piece \in {"wN", "bN"} THEN 1
    ELSE IF piece \in {"wB", "bB"} THEN 2
    ELSE IF piece \in {"wR", "bR"} THEN 3
    ELSE IF piece \in {"wQ", "bQ"} THEN 4
    ELSE 5

ListIndex(m) ==
    GeneratorIndex(m.piece) * 6400 + m.startSq * 100 + LocalIndex(m)

\* generate_all_moves as the list the code returns
MoveList(g) ==
    LET keyed == {<<ListIndex(m), m>> : m \in generate_all_moves(g)}
    IN  [i \in 1..Cardinality(keyed) |->
           (CHOOSE k \in keyed :
               Cardinality({x \in keyed : x[1] < k[1]}) = i - 1)[2]]

\* the depth the searches are run with
MaxDepth == 2

\* the suspensions of minimax counted in a search (ai.yields stops there)
MaxYields == 1

\* ------------------------------------------------------------------
\* chess/AI/ChessEngine.py: ChessAI, run without a time limit
\* (time_limit = None, so that no time check is ever true)
\* ------------------------------------------------------------------
PST_P ==
    <<   0,    0,    0,    0,    0,    0,    0,    0,
         5,   10,   10,  -20,  -20,   10,   10,    5,
         5,   -5,  -10,    0,    0,  -10,   -5,    5,
         0,    0,    0,   20,   20,    0,    0,    0,
         5,    5,   10,   25,   25,   10,    5,    5,
        10,   10,   20,   30,   30,   20,   10,   10,
        50,   50,   50,   50,   50,   50,   50,   50,
         0,    0,    0,    0,    0,    0,    0,    0>>

PST_N ==
    << -50,  -40,  -30,  -30,  -30,  -30,  -40,  -50,
       -40,  -20,    0,    0,    0,    0,  -20,  -40,
       -30,    0,   10,   15,   15,   10,    0,  -30,
       -30,    5,   15,   20,   20,   15,    5,  -30,
       -30,    0,   15,   20,   20,   15,    0,  -30,
       -30,    5,   10,   15,   15,   10,    5,  -30,
       -40,  -20,    0,    5,    5,    0,  -20,  -40,
       -50,  -40,  -30,  -30,  -30,  -30,  -40,  -50>>

PST_B ==
    << -20,  -10,  -10,  -10,  -10,  -10,  -10,  -20,
       -10,    0,    0,    0,    0,    0,    0,  -10,
       -10,    0,    5,   10,   10,    5,    0,  -10,
       -10,    5,    5,   10,   10,    5,    5,  -10,
       -10,    0,   10,   10,   10,   10,    0,  -10,
       -10,   10,   10,   10,   10,   10,   10,  -10,
       -10,    5,    0,    0,    0,    0,    5,  -10,
       -20,  -10,  -10,  -10,  -10,  -10,  -10,  -20>>

PST_R ==
    <<   0,    0,    0,    5,    5,    0,    0,    0,
         0,   -5,   -5,   -5,   -5,   -5,   -5,    0,
         0,   -5,   -5,   -5,   -5,   -5,   -5,    0,
         5,    0,    0,    0,    0,    0,    0,    5,
         5,    0,    0,    0,    0,    0,    0,    5,
         5,    0,    0,    0,    0,    0,    0,    5,
         5,    0,    0,    0,    0,    0,    0,    5,
         0,    0,    0,    5,    5,    0,    0,    0>>

PST_Q ==
    << -20,  -10,  -10,   -5,   -5,  -10,  -10,  -20,
       -10,    0,    0,    0,    0,    0,    0,  -10,
       -10,    0,    5,    5,    5,    5,    0,  -10,
        -5,    0,    5,    5,    5,    5,    0,   -5,
         0,    0,    5,    5,    5,    5,    0,   -5,
       -10,    5,    5,    5,    5,    5,    0,  -10,
       -10,    0,    5,    0,    0,    0,    0,  -10,
       -20,  -10,  -10,   -5,   -5,  -10,  -10,  -20>>

PST_K ==
    << -30,  -40,  -40,  -50,  -50,  -40,  -40,  -30,
       -30,  -40,  -40,  -50,  -50,  -40,  -40,  -30,
       -30,  -40,  -40,  -50,  -50,  -40,  -40,  -30,
       -30,  -40,  -40,  -50,  -50,  -40,  -40,  -30,
       -20,  -30,  -30,  -40,  -40,  -30,  -30,  -20,
       -10,  -20,  -20,  -20,  -20,  -20,  -20,  -10,
        20,   20,    0,    0,    0,    0,   20,   20,
        20,   30,   10,    0,    0,   10,   30,   20>>

PIECE_SQUARE_TABLES ==
    [P |-> PST_P, N |-> PST_N, B |-> PST_B, R |-> PST_R, Q |-> PST_Q,
     K |-> PST_K]

\* ChessAI.__init__: the default piece_values
piece_values ==
    [P |-> 100, N |-> 280, B |-> 320, R |-> 479, Q |-> 929, K |-> 60000]

mirror_index(sq) == 63 - sq

\* float('inf'): larger than any evaluation
Infinity == 10000000

\* no score: the search chose no move
NoScore == Infinity + 1

Max(x, y) == IF x >= y THEN x ELSE y

Min(x, y) == IF x <= y THEN x ELSE y

\* ChessAI._piece_square_score: lowest bit first
RECURSIVE piece_square_score(_, _, _)
piece_square_score(bitboard, pst, is_white) ==
    IF bitboard = {} THEN 0
    ELSE LET sq == CHOOSE s \in bitboard : \A t \in bitboard : s <= t
         IN  (IF is_white THEN pst[sq + 1] ELSE pst[mirror_index(sq) + 1])
             + piece_square_score(bitboard \ {sq}, pst, is_white)

\* ChessAI.evaluate_board: material and piece-square tables, white minus
\* black
evaluate_board(g) ==
    LET side(pawns, knights, bishops, rooks, queen, king, is_white) ==
            piece_values.P * Cardinality(pawns)
            + piece_values.N * Cardinality(knights)
            + piece_values.B * Cardinality(bishops)
            + piece_values.R * Cardinality(rooks)
            + piece_values.Q * Cardinality(queen)
            + piece_values.K * Cardinality(king)
            + piece_square_score(pawns, PIECE_SQUARE_TABLES.P, is_white)
            + piece_square_score(knights, PIECE_SQUARE_TABLES.N, is_white)
            + piece_square_score(bishops, PIECE_SQUARE_TABLES.B, is_white)
            + piece_square_score(rooks, PIECE_SQUARE_TABLES.R, is_white)
            + piece_square_score(queen, PIECE_SQUARE_TABLES.Q, is_white)
            + piece_square_score(king, PIECE_SQUARE_TABLES.K, is_white)
    IN  side(g.whitePawns, g.whiteKnights, g.whiteBishops, g.whiteRooks,
             g.whiteQueen, g.whiteKing, TRUE)
        - side(g.blackPawns, g.blackKnights, g.blackBishops, g.blackRooks,
               g.blackQueen, g.blackKing, FALSE)

\* ChessAI._sort_moves: sorted() by (not m.isCapture), which is stable
sort_moves(moves) ==
    SelectSeq(moves, LAMBDA m : m.isCapture)
    \o SelectSeq(moves, LAMBDA m : ~m.isCapture)

\* ChessAI.minimax.  The search works on the one GameState: the result
\* carries the value and the state the call leaves behind.
RECURSIVE minimax(_, _, _, _, _)
RECURSIVE minimax_loop(_, _, _, _, _, _, _, _)
minimax(g, depth, alpha, beta, maximizing) ==
    IF depth = 0 THEN [value |-> evaluate_board(g), gs |-> g]
    ELSE LET moves == MoveList(g)
         IN  IF moves = <<>> THEN [value |-> evaluate_board(g), gs |-> g]
             ELSE minimax_loop(g, sort_moves(moves), 1, depth, alpha, beta,
                               maximizing,
                               IF maximizing THEN -Infinity ELSE Infinity)

\* the for loop of minimax from the i-th move on
minimax_loop(g, moves, i, depth, alpha, beta, maximizing, value) ==
    IF i > Len(moves) THEN [value |-> value, gs |-> g]
    ELSE LET move == Handed(g, moves[i])
             child == minimax(make_move(g, move), depth - 1, alpha, beta,
                              ~maximizing)
             g2 == unmake_move(child.gs, move)
             v == IF maximizing THEN Max(value, child.value)
                  ELSE Min(value, child.value)
             a == IF maximizing THEN Max(alpha, v) ELSE alpha
             b == IF maximizing THEN beta ELSE Min(beta, v)
         IN  IF a >= b THEN [value |-> v, gs |-> g2]
             ELSE minimax_loop(g2, moves, i + 1, depth, a, b, maximizing, v)

\* the loop over the root moves of one depth iteration of find_best_move,
\* from the i-th root move on
RECURSIVE root_loop(_, _, _, _, _, _, _, _, _)
root_loop(g, root_moves, i, depth, alpha, beta, root_maximizing, best_score, best_move) ==
    IF i > Len(root_moves)
    THEN [best_move |-> best_move, best_score |-> best_score,
          alpha |-> alpha, beta |-> beta, gs |-> g]
    ELSE LET move == Handed(g, root_moves[i])
             child == minimax(make_move(g, move), depth - 1, alpha, beta,
                              ~root_maximizing)
             g2 == unmake_move(child.gs, move)
             better == IF root_maximizing THEN child.value > best_score
                       ELSE child.value < best_score
             score == IF better THEN child.value ELSE best_score
             best == IF better THEN root_moves[i] ELSE best_move
             a == IF root_maximizing THEN Max(alpha, score) ELSE alpha
             b == IF root_maximizing THEN beta ELSE Min(beta, score)
         IN  IF a >= b
             THEN [best_move |-> best, best_score |-> score,
                   alpha |-> a, beta |-> b, gs |-> g2]
             ELSE root_loop(g2, root_moves, i + 1, depth, a, b,
                            root_maximizing, score, best)

\* the depth iterations of find_best_move from `depth` on; alpha and beta
\* are the variables set once before the loop
RECURSIVE deepen(_, _, _, _, _, _, _, _, _)
deepen(g, root_moves, depth, max_depth, alpha, beta, root_maximizing, best_move_so_far, score) ==
    IF depth > max_depth
    THEN [move |-> best_move_so_far, score |-> score, gs |-> g]
    ELSE LET r == root_loop(g, root_moves, 1, depth, alpha, beta,
                            root_maximizing,
                            IF root_maximizing THEN -Infinity ELSE Infinity,
                            NoMove)
         IN  deepen(r.gs, root_moves, depth + 1, max_depth, r.alpha, r.beta,
                    root_maximizing,
                    IF r.best_move # NoMove THEN r.best_move
                    ELSE best_move_so_far,
                    IF r.best_move # NoMove THEN r.best_score ELSE score)

\* ChessAI.find_best_move: the move returned, the score it was chosen
\* with, and the state left behind
find_best_move(g, max_depth) ==
    LET root_moves == MoveList(g)
    IN  IF root_moves = <<>>
        THEN [move |-> NoMove, score |-> NoScore, gs |-> g]
        ELSE deepen(g, sort_moves(root_moves), 1, max_depth,
                    -Infinity, Infinity, g.whiteToMove, NoMove, NoScore)

\* ------------------------------------------------------------------
\* chess/helpers/check_detection.py and chess/ai/evaluation.py, the
\* evaluation AIPlayer uses.  The module chess.ai.piece_square_tables it
\* imports its six tables from is not among the sources: the tables are
\* 64-entry tables of positional bonuses, taken here as all zero.
\* ------------------------------------------------------------------
\* is_square_attacked: by_white is not used, the moves are those of the
\* side to move
is_square_attacked(game_state, square, by_white) ==
    \E move \in generate_all_moves(game_state) : move.endSq = square

PAWN_TABLE == [sq \in Squares |-> 0]

KNIGHT_TABLE == [sq \in Squares |-> 0]

BISHOP_TABLE == [sq \in Squares |-> 0]

ROOK_TABLE == [sq \in Squares |-> 0]

QUEEN_TABLE == [sq \in Squares |-> 0]

KING_TABLE == [sq \in Squares |-> 0]

\* table[::-1]
Reversed(table) == [sq \in Squares |-> table[63 - sq]]

\* PIECE_VALUES of evaluation.py
PIECE_VALUES ==
    [wP |-> 1, wN |-> 3, wB |-> 3, wR |-> 5, wQ |-> 9, wK |-> 0,
     bP |-> 1, bN |-> 3, bB |-> 3, bR |-> 5, bQ |-> 9, bK |-> 0]

\* PIECE_SQUARE_TABLES of evaluation.py
EVALUATION_PIECE_SQUARE_TABLES ==
    [wP |-> PAWN_TABLE, wN |-> KNIGHT_TABLE, wB |-> BISHOP_TABLE,
     wR |-> ROOK_TABLE, wQ |-> QUEEN_TABLE, wK |-> KING_TABLE,
     bP |-> Reversed(PAWN_TABLE), bN |-> Reversed(KNIGHT_TABLE),
     bB |-> Reversed(BISHOP_TABLE), bR |-> Reversed(ROOK_TABLE),
     bQ |-> Reversed(QUEEN_TABLE), bK |-> Reversed(KING_TABLE)]

\* the sum of piece_value + piece_square_table[sq] over the set bits
RECURSIVE material(_, _)
material(bitboard, piece) ==
    IF bitboard = {} THEN 0
    ELSE LET sq == CHOOSE x \in bitboard : TRUE
         IN  PIECE_VALUES[piece] + EVALUATION_PIECE_SQUARE_TABLES[piece][sq]
               + material(bitboard \ {sq}, piece)

\* bitboard.bit_length() - 1: the highest set bit
bit_length_minus_1(bitboard) ==
    CHOOSE sq \in bitboard : \A x \in bitboard : x <= sq

\* evaluate_board of chess/ai/evaluation.py
evaluation_evaluate_board(game_state) ==
    IF game_state.whiteKing = {} THEN -1000
    ELSE IF game_state.blackKing = {} THEN 1000
    ELSE LET white_material ==
                 material(game_state.whitePawns, "wP")
                   + material(game_state.whiteKnights, "wN")
                   + material(game_state.whiteBishops, "wB")
                   + material(game_state.whiteRooks, "wR")
                   + material(game_state.whiteQueen, "wQ")
                   + material(game_state.whiteKing, "wK")
             black_material ==
                 material(game_state.blackPawns, "bP")
                   + material(game_state.blackKnights, "bN")
                   + material(game_state.blackBishops, "bB")
                   + material(game_state.blackRooks, "bR")
                   + material(game_state.blackQueen, "bQ")
                   + material(game_state.blackKing, "bK")
             white_king_sq == bit_length_minus_1(game_state.whiteKing)
             black_king_sq == bit_length_minus_1(game_state.blackKing)
             white_penalty ==
                 IF is_square_attacked(game_state, white_king_sq, FALSE)
                 THEN 50 ELSE 0
             black_penalty ==
                 IF is_square_attacked(game_state, black_king_sq, TRUE)
                 THEN 50 ELSE 0
         IN  (white_material - white_penalty)
               - (black_material - black_penalty)

\* ------------------------------------------------------------------
\* The searches as processes on the caller's GameState.
\* ChessAI.find_best_move is a coroutine: it runs from one
\* `await asyncio.sleep(0)` to the next, and the clock it reads at its
\* time checks advances on its own.  AIPlayer.select_move runs without
\* suspending.  Each action below is a piece of the code between two
\* calls of make_move / minimax, returns, or suspensions:
\*   pc = "root_loop"    about to make root move i (ChessEngine.py:112,
\*                       ai_player.py:30)
\*   pc = "enter"        a minimax call has just been made (its frame is on
\*                       top of the stack)
\*   pc = "loop"         about to make move i of the top frame
\*   pc = "return"       the call of the top frame returns ai.ret
\*   pc = "yield"        suspended in minimax (ChessEngine.py:183, 201)
\*   pc = "root_end"     the root loop of one depth is over
\*                       (ChessEngine.py:139)
\*   pc = "depth_yield"  suspended between two depths (ChessEngine.py:150)
\*   pc = "done"         the root function has returned ai.result
\*   pc = "raised"       make_move raised AttributeError and the search
\*                       ended with it
\* The fields best_score and root_moves hold best_value and all_moves of
\* AIPlayer.select_move.
\* ------------------------------------------------------------------
\* how many plies below depth 0 the minimax calls of AIPlayer(depth = 0)
\* are followed
MaxOverrun == 1

\* time_limit as the time checks see it: None, 0, or a positive number
TimeLimits == {"None", "zero", "positive"}

\* self.time_limit and (time.time() - self.start_time) > self.time_limit
time_is_up(a) == a.time_limit = "positive" /\ a.expired

\* the frame of a minimax call: its arguments, the move its caller made
\* before the call, and its local variables
Frame(move, depth, alpha, beta, maximizing) ==
    [move |-> move, depth |-> depth, alpha |-> alpha, beta |-> beta,
     maximizing |-> maximizing, moves |-> <<>>, i |-> 0, value |-> 0]

TopFrame(a) == a.stack[Len(a.stack)]

\* two of the scripted lines: the knight shuffle (the ninth ply brings the
\* position up a third time) and the queen taking the black king
KnightShuffle ==
    << <<g1, Sq(5, 3)>>, <<g8, Sq(5, 6)>>, <<Sq(5, 3), g1>>,
       <<Sq(5, 6), g8>>, <<g1, Sq(5, 3)>>, <<g8, Sq(5, 6)>>,
       <<Sq(5, 3), g1>>, <<Sq(5, 6), g8>>, <<g1, Sq(5, 3)>> >>

QueenTakesKing ==
    << <<Sq(4, 2), Sq(4, 4)>>, <<Sq(5, 7), Sq(5, 6)>>,
       <<d1, Sq(7, 5)>>, <<Sq(0, 7), Sq(0, 6)>>, <<Sq(7, 5), e8>> >>

\* the games after which the caller starts a search: none (the empty
\* board of a new GameState, the standard position), the knight shuffle
\* one ply before and at the third occurrence, the queen line with the
\* black king en prise and taken
SearchRoots ==
    {<<>>, SubSeq(KnightShuffle, 1, 8), KnightShuffle,
     SubSeq(QueenTakesKing, 1, 4), QueenTakesKing}

CanSearch ==
    /\ ai.pc = "idle"
    /\ ~desync /\ off = 0
    /\ Played(gs) \in SearchRoots

\* the head of `for depth in range(1, self.max_depth + 1)` with the two
\* assignments that follow it, or the return after the loop
start_depth(a, depth) ==
    IF depth > a.max_depth
    THEN [a EXCEPT !.pc = "done", !.result = a.best_move_so_far]
    ELSE [a EXCEPT !.depth = depth,
                   !.best_score = IF a.root_maximizing THEN -Infinity
                                  ELSE Infinity,
                   !.best_move = NoMove,
                   !.i = 1,
                   !.broke = "none",
                   !.pc = "root_loop"]

\* ChessAI(max_depth, time_limit).find_best_move(gs) up to its first
\* make_move
FindBestMove ==
    /\ CanSearch
    /\ \E max_depth \in 0..MaxDepth, time_limit \in TimeLimits :
          LET root_moves == MoveList(gs)
              a == [NoSearch EXCEPT !.engine = "ChessAI",
                                    !.pc = "done",
                                    !.max_depth = max_depth,
                                    !.time_limit = time_limit,
                                    !.root = <<gs>>,
                                    !.root_maximizing = gs.whiteToMove]
          IN  ai' = IF root_moves = <<>> THEN a
                    ELSE start_depth(
                           [a EXCEPT !.root_moves = sort_moves(root_moves),
                                     !.alpha = -Infinity,
                                     !.beta = Infinity], 1)
    /\ UNCHANGED <<gs, off, desync, last>>

\* AIPlayer(gs, depth).select_move() up to its first make_move
SelectMove ==
    /\ CanSearch
    /\ \E depth \in 0..MaxDepth :
          LET a == [NoSearch EXCEPT !.engine = "AIPlayer",
                                    !.pc = "done",
                                    !.max_depth = depth,
                                    !.root = <<gs>>]
              best_value == IF gs.whiteToMove THEN -Infinity ELSE Infinity
              all_moves == MoveList(gs)
              b == [a EXCEPT !.best_score = best_value,
                             !.alpha = -Infinity,
                             !.beta = Infinity,
                             !.root_moves = all_moves]
          IN  ai' = IF gs.game_over THEN a
                    ELSE IF all_moves = <<>>
                    THEN [b EXCEPT !.current_evaluation = best_value]
                    ELSE [b EXCEPT !.i = 1, !.pc = "root_loop"]
    /\ UNCHANGED <<gs, off, desync, last>>

\* time passes: the time limit of the running search is exceeded from
\* now on
Tick ==
    /\ ai.engine = "ChessAI"
    /\ ai.pc \notin {"idle", "done", "raised"}
    /\ ai.time_limit = "positive" /\ ~ai.expired
    /\ ai' = [ai EXCEPT !.expired = TRUE]
    /\ UNCHANGED <<gs, off, desync, last>>

\* game_state.make_move(move) followed by the call of minimax
SearchMakes(move, child) ==
    /\ gs' = make_move(gs, move)
    /\ last' = [op |-> "make_move", outcome |-> make_outcome(gs, move),
                arg |-> "search"]
    /\ ai' = IF make_outcome(gs, move) = "raised"
             THEN [ai EXCEPT !.pc = "raised"]
             ELSE [ai EXCEPT !.stack = Append(@, child), !.pc = "enter"]
    /\ UNCHANGED <<off, desync>>

\* the root loop makes its next move and calls minimax
\* (ChessEngine.py:113-117, ai_player.py:31-32)
RootMake ==
    /\ ai.pc = "root_loop"
    /\ LET move == Handed(gs, ai.root_moves[ai.i])
       IN  SearchMakes(move,
             IF ai.engine = "ChessAI"
             THEN Frame(move, ai.depth - 1, ai.alpha, ai.beta,
                        ~ai.root_maximizing)
             ELSE Frame(move, ai.max_depth - 1, ai.alpha, ai.beta,
                        ~make_move(gs, move).whiteToMove))

\* a minimax call up to its loop, or to its return of the evaluation
\* (ChessEngine.py:157-173, ai_player.py:56-66)
Enter ==
    /\ ai.pc = "enter"
    /\ LET f == TopFrame(ai)
           moves == MoveList(gs)
           leaf == IF ai.engine = "ChessAI"
                   THEN time_is_up(ai) \/ f.depth = 0 \/ moves = <<>>
                   ELSE f.depth = 0 \/ gs.game_over \/ moves = <<>>
       IN  ai' = IF leaf
                 THEN [ai EXCEPT
                         !.pc = "return",
                         !.ret = IF ai.engine = "ChessAI"
                                 THEN evaluate_board(gs)
                                 ELSE evaluation_evaluate_board(gs),
                         !.analyzed_positions =
                             IF ai.engine = "ChessAI" THEN @ ELSE @ + 1]
                 ELSE [ai EXCEPT
                         !.pc = "loop",
                         !.stack[Len(ai.stack)] =
                             [f EXCEPT
                                !.moves = IF ai.engine = "ChessAI"
                                          THEN sort_moves(moves) ELSE moves,
                                !.i = 1,
                                !.value = IF f.maximizing THEN -Infinity
                                          ELSE Infinity]]
    /\ UNCHANGED <<gs, off, desync, last>>

\* the loop of a minimax call makes its next move and calls minimax
\* (ChessEngine.py:175-176, 193-194, ai_player.py:68-69, 79-80)
Make ==
    /\ ai.pc = "loop"
    /\ TopFrame(ai).depth > -MaxOverrun
    /\ LET f == TopFrame(ai)
           move == Handed(gs, f.moves[f.i])
       IN  SearchMakes(move, Frame(move, f.depth - 1, f.alpha, f.beta,
                                   ~f.maximizing))

\* find_best_move_after with the time check moved before the comparison
\* of the score
find_best_move_after_time_first(a, score) ==
    IF time_is_up(a) THEN [a EXCEPT !.broke = "time", !.pc = "root_end"]
    ELSE LET better == IF a.root_maximizing THEN score > a.best_score
                       ELSE score < a.best_score
             best_score == IF better THEN score ELSE a.best_score
             alpha == IF a.root_maximizing THEN Max(a.alpha, best_score)
                      ELSE a.alpha
             beta == IF a.root_maximizing THEN a.beta
                     ELSE Min(a.beta, best_score)
             b == [a EXCEPT !.best_score = best_score,
                            !.best_move = IF better THEN a.root_moves[a.i]
                                          ELSE @,
                            !.alpha = alpha,
                            !.beta = beta]
         IN  IF alpha >= beta
             THEN [b EXCEPT !.broke = "prune", !.pc = "root_end"]
             ELSE IF a.i < Len(a.root_moves)
             THEN [b EXCEPT !.i = @ + 1, !.pc = "root_loop"]
             ELSE [b EXCEPT !.pc = "root_end"]

\* the local variables of find_best_move after the value `score` of a
\* root move, and where it goes on (ChessEngine.py:120-137)
find_best_move_after(a, score) ==
    LET better == IF a.root_maximizing THEN score > a.best_score
                  ELSE score < a.best_score
        best_score == IF better THEN score ELSE a.best_score
        alpha == IF a.root_maximizing THEN Max(a.alpha, best_score)
                 ELSE a.alpha
        beta == IF a.root_maximizing THEN a.beta
                ELSE Min(a.beta, best_score)
        b == [a EXCEPT !.best_score = best_score,
                       !.best_move = IF better THEN a.root_moves[a.i]
                                     ELSE @,
                       !.alpha = alpha,
                       !.beta = beta]
    IN  IF time_is_up(a) THEN [b EXCEPT !.broke = "time", !.pc = "root_end"]
        ELSE IF alpha >= beta
        THEN [b EXCEPT !.broke = "prune", !.pc = "root_end"]
        ELSE IF a.i < Len(a.root_moves)
        THEN [b EXCEPT !.i = @ + 1, !.pc = "root_loop"]
        ELSE [b EXCEPT !.pc = "root_end"]

\* the local variables of select_move after the value board_value of a
\* root move, and where it goes on; white is game_state.whiteToMove as
\* read after unmake_move (ai_player.py:35-50)
select_move_after(a, board_value, white) ==
    LET better == IF white THEN board_value > a.best_score
                  ELSE board_value < a.best_score
        best_value == IF better THEN board_value ELSE a.best_score
        alpha == IF white THEN Max(a.alpha, best_value) ELSE a.alpha
        beta == IF white THEN a.beta ELSE Min(a.beta, best_value)
        b == [a EXCEPT !.best_score = best_value,
                       !.best_move = IF better THEN a.root_moves[a.i]
                                     ELSE @,
                       !.alpha = alpha,
                       !.beta = beta]
    IN  IF beta <= alpha \/ a.i = Len(a.root_moves)
        THEN [b EXCEPT !.broke = IF beta <= alpha THEN "prune" ELSE "none",
                       !.current_evaluation = best_value,
                       !.result = b.best_move,
                       !.pc = "done"]
        ELSE [b EXCEPT !.i = @ + 1, !.pc = "root_loop"]

\* the frame of a ChessAI.minimax call after the value `score` of a
\* child (ChessEngine.py:179-180, 197-198)
minimax_after(p, score) ==
    LET value == IF p.maximizing THEN Max(p.value, score)
                 ELSE Min(p.value, score)
    IN  [p EXCEPT !.value = value,
                  !.alpha = IF p.maximizing THEN Max(@, value) ELSE @,
                  !.beta = IF p.maximizing THEN @ ELSE Min(@, value)]

\* the frame of an AIPlayer.minimax call after the value eval of a child
\* (ai_player.py:71-72, 82-83)
ai_player_minimax_after(p, eval) ==
    [p EXCEPT !.value = IF p.maximizing THEN Max(@, eval) ELSE Min(@, eval),
              !.alpha = IF p.maximizing THEN Max(@, eval) ELSE @,
              !.beta = IF p.maximizing THEN @ ELSE Min(@, eval)]

\* a minimax call has returned: unmake_move of the move made before it,
\* and the caller's code up to its next make_move, suspension or return
Back ==
    /\ ai.pc = "return"
    /\ LET move == TopFrame(ai).move
           rest == SubSeq(ai.stack, 1, Len(ai.stack) - 1)
           a == [ai EXCEPT !.stack = rest]
       IN  /\ gs' = unmake_move(gs, move)
           /\ last' = [op |-> "unmake_move",
                       outcome |-> unmake_outcome(gs, move),
                       arg |-> "search"]
           /\ ai' =
                IF rest = <<>>
                THEN (IF ai.engine = "ChessAI"
                      THEN find_best_move_after(a, ai.ret)
                      ELSE select_move_after(a, ai.ret,
                             unmake_move(gs, move).whiteToMove))
                ELSE
                  LET n == Len(rest)
                  IN  IF ai.engine = "ChessAI"
                      THEN [a EXCEPT !.stack[n] = minimax_after(@, ai.ret),
                                     !.yields = IF @ <= MaxYields
                                                THEN @ + 1 ELSE @,
                                     !.pc = "yield"]
                      ELSE LET p == ai_player_minimax_after(rest[n], ai.ret)
                           IN  IF p.beta <= p.alpha \/ p.i = Len(p.moves)
                               THEN [a EXCEPT !.stack[n] = p,
                                              !.ret = p.value,
                                              !.pc = "return"]
                               ELSE [a EXCEPT !.stack[n] =
                                                  [p EXCEPT !.i = @ + 1],
                                              !.pc = "loop"]
    /\ UNCHANGED <<off, desync>>

\* ChessAI.minimax goes on after `await asyncio.sleep(0)`
\* (ChessEngine.py:185-189, 203-207)
Resume ==
    /\ ai.pc = "yield"
    /\ LET p == TopFrame(ai)
       IN  ai' = IF p.alpha >= p.beta \/ time_is_up(ai)
                      \/ p.i = Len(p.moves)
                 THEN [ai EXCEPT !.ret = p.value, !.pc = "return"]
                 ELSE [ai EXCEPT !.stack[Len(ai.stack)].i = @ + 1,
                                 !.pc = "loop"]
    /\ UNCHANGED <<gs, off, desync, last>>

\* find_best_move after the root loop of one depth
\* (ChessEngine.py:139-147)
RootEnd ==
    /\ ai.pc = "root_end"
    /\ LET a == [ai EXCEPT !.best_move_so_far =
                     IF ai.best_move # NoMove THEN ai.best_move ELSE @]
       IN  ai' = IF time_is_up(ai)
                 THEN [a EXCEPT !.result = a.best_move_so_far,
                                !.pc = "done"]
                 ELSE [a EXCEPT !.pc = "depth_yield"]
    /\ UNCHANGED <<gs, off, desync, last>>

\* find_best_move goes on after `await asyncio.sleep(0)` with the next
\* depth (ChessEngine.py:150, 105-107, 152)
NextDepth ==
    /\ ai.pc = "depth_yield"
    /\ ai' = start_depth(ai, ai.depth + 1)
    /\ UNCHANGED <<gs, off, desync, last>>

\* the caller sets up the board and plays a scripted line while no search
\* runs
HostInit == ai.pc = "idle" /\ InitStandardPosition

HostBook == ai.pc = "idle" /\ PlayBook

NextSearch ==
    \/ HostInit
    \/ HostBook
    \/ FindBestMove
    \/ SelectMove
    \/ Tick
    \/ RootMake
    \/ Enter
    \/ Make
    \/ Back
    \/ Resume
    \/ RootEnd
    \/ NextDepth

SpecSearch == Init /\ [][NextSearch]_vars

\* ------------------------------------------------------------------
\* A second call site on the same GameState: while find_best_move is
\* suspended in `await asyncio.sleep(0)` of a minimax loop, another task
\* of the event loop makes a move it generated from the state as it finds
\* it.  One such move per search, at one of its first MaxYields
\* suspensions; the search is ChessAI(max_depth=SharedDepth,
\* time_limit=None), the shallowest that suspends inside minimax.
\* ------------------------------------------------------------------
SharedDepth == 2

SharedSearch ==
    /\ FindBestMove
    /\ ai'.max_depth = SharedDepth
    /\ ai'.time_limit = "None"

HostMove ==
    /\ ai.engine = "ChessAI" /\ ai.pc = "yield"
    /\ ai.yields <= MaxYields
    /\ ai.host_move = NoMove
    /\ \E m \in generate_all_moves(gs) :
          /\ gs' = make_move(gs, Handed(gs, m))
          /\ last' = [op |-> "make_move", outcome |-> make_outcome(gs, m),
                      arg |-> "host"]
          /\ ai' = [ai EXCEPT !.host_move = Handed(gs, m)]
    /\ UNCHANGED <<off, desync>>

NextConcurrent ==
    \/ HostInit
    \/ SharedSearch
    \/ RootMake
    \/ Enter
    \/ Make
    \/ Back
    \/ Resume
    \/ RootEnd
    \/ NextDepth
    \/ HostMove

SpecConcurrent == Init /\ [][NextConcurrent]_vars

\* ------------------------------------------------------------------
\* Properties
\* ------------------------------------------------------------------
Top(g) == g.move_history[Len(g.move_history)]

\* the state is the one a completed make_move returned
JustApplied ==
    /\ last.op = "make_move" /\ last.outcome = "applied"
    /\ gs.move_history # <<>>

Bitboards(g) ==
    <<g.whitePawns, g.whiteKnights, g.whiteBishops, g.whiteRooks,
      g.whiteQueen, g.whiteKing,
      g.blackPawns, g.blackKnights, g.blackBishops, g.blackRooks,
      g.blackQueen, g.blackKing>>

\* C1: for every generated move M of the current state S, make_move(M)
\* followed by unmake_move(M) with the same object gives S back, every
\* field included (bitboards, flags, clocks, repetition map, game-over
\* flag, move history).
C1_MakeUnmakeRestores ==
    \A m \in generate_all_moves(gs) :
        unmake_move(make_move(gs, Handed(gs, m)), Handed(gs, m)) = gs

\* C2: no square is set in more than one of the 12 piece bitboards.
C2_BitboardsDisjoint ==
    \A i, j \in 1..12 :
        i # j => Bitboards(gs)[i] \cap Bitboards(gs)[j] = {}

\* C3: unmake_move(m) on an empty history, or with a move that is not the
\* one on top of the history, changes no field of the GameState, the move
\* history included.
C3_InvalidUnmakeChangesNothing ==
    [][(last'.op = "unmake_move" /\ last'.arg = "other") => gs' = gs]_vars

\* C4: make_move on a state whose game_over flag is true changes nothing:
\* no snapshot is pushed and no field changes.
C4_FinishedGameRejectsMoves ==
    [][(gs.game_over /\ last'.op = "make_move")
          => (gs' = gs /\ last'.outcome = "rejected")]_vars

\* C4 witness: make_move has been called on a finished game that has moves
\* on its history.
C4_Witness ==
    /\ gs.game_over /\ gs.move_history # <<>>
    /\ last.op = "make_move" /\ last.outcome = "rejected"

\* C5 as claimed: once game_over is true, make_move and unmake_move leave
\* it true; only init_standard_position clears it.
C5_GameOverStaysTrue ==
    [][(gs.game_over /\ last'.op # "init_standard_position")
          => gs'.game_over]_vars

\* C5 amended: game_over goes from true to false only in
\* init_standard_position or in an unmake_move that restores the snapshot
\* of the move on top of the history; make_move and an unmake_move that
\* restores nothing leave it true.
C5_GameOverClearedOnlyByUndoOrReset ==
    [][(gs.game_over /\ ~gs'.game_over)
          => \/ last'.op = "init_standard_position"
             \/ (last'.op = "unmake_move" /\ last'.outcome = "restored")]_vars

\* C5 witness: the game is over and an unmake_move that restored nothing
\* has just run.
C5_Witness ==
    /\ gs.game_over
    /\ last.op = "unmake_move" /\ last.outcome = "mismatch"

\* C6: a make_move that applies a move lengthens move_history by one, an
\* unmake_move of the move on top shortens it by one, and no other call
\* of make_move or unmake_move changes its length.
C6_HistoryCountsMoves ==
    [][last'.op \in {"make_move", "unmake_move"}
          => Len(gs'.move_history) =
               Len(gs.move_history)
               + (IF last'.op = "make_move" /\ last'.outcome = "applied"
                  THEN 1 ELSE 0)
               - (IF last'.op = "unmake_move" /\ last'.outcome = "restored"
                  THEN 1 ELSE 0)]_vars

\* C7: after make_move of a two-square pawn advance to X,
\* en_passant_target is the square the pawn passed over (X+8 for white,
\* X-8 for black); after make_move of any other move it is None.
C7_EnPassantTargetBehindPawn ==
    JustApplied =>
        LET m == Top(gs).move
        IN  IF m.piece \in {"wP", "bP"} /\ Abs(m.startSq - m.endSq) = 16
            THEN gs.en_passant_target =
                   (IF m.piece = "wP" THEN m.endSq + 8 ELSE m.endSq - 8)
            ELSE gs.en_passant_target = NoneSq

\* squares strictly between two squares of one row
Between(s, t) == {x \in Squares : (s < x /\ x < t) \/ (t < x /\ x < s)}

\* C8, one rook: the king generator of the colour returns a castle move to
\* dest exactly when the king has not moved, the rook of that corner has
\* not moved, and the squares strictly between king and corner are empty.
CastleRule(is_white, kingMoved, rookMoved, corner, dest) ==
    \A k \in (IF is_white THEN gs.whiteKing ELSE gs.blackKing) :
        (\E m \in generate_king_moves(gs, is_white) :
             m.isCastle /\ m.endSq = dest /\ m.startSq = k)
        <=> /\ ~kingMoved
            /\ ~rookMoved
            /\ Between(k, corner) \cap get_occupancy(gs) = {}

\* C8: with the king unmoved, a rook flag false and the squares between
\* king and that rook empty, generate_king_moves returns the castle move
\* to the g-file (kingside) or c-file (queenside) square of the back rank;
\* otherwise it returns no castle move towards that rook.
C8_CastleGeneratedWhenAllowed ==
    /\ CastleRule(TRUE, gs.whiteKingMoved, gs.whiteRookHMoved, h1, g1)
    /\ CastleRule(TRUE, gs.whiteKingMoved, gs.whiteRookAMoved, a1, c1)
    /\ CastleRule(FALSE, gs.blackKingMoved, gs.blackRookHMoved, h8, g8)
    /\ CastleRule(FALSE, gs.blackKingMoved, gs.blackRookAMoved, a8, c8)
    /\ \A w \in BOOLEAN : \A m \in generate_king_moves(gs, w) :
          m.isCastle =>
             /\ m.piece = (IF w THEN "wK" ELSE "bK")
             /\ m.endSq \in (IF w THEN {g1, c1} ELSE {g8, c8})

\* C8 witness: a move has been made and the side to move has a castle move.
C8_Witness ==
    /\ JustApplied
    /\ \E m \in generate_king_moves(gs, gs.whiteToMove) : m.isCastle

\* the moved-flags a castle move relies on
CastleFlags(g, m) ==
    IF m.piece = "wK"
    THEN {g.whiteKingMoved,
          IF m.endSq = g1 THEN g.whiteRookHMoved ELSE g.whiteRookAMoved}
    ELSE {g.blackKingMoved,
          IF m.endSq = g8 THEN g.blackRookHMoved ELSE g.blackRookAMoved}

MovedFlags(g) ==
    <<g.whiteKingMoved, g.whiteRookAMoved, g.whiteRookHMoved,
      g.blackKingMoved, g.blackRookAMoved, g.blackRookHMoved>>

\* the flag of the king or rook that move m takes off its home square
FlagOfMover(g, m) ==
    IF m.piece = "wK" THEN g.whiteKingMoved
    ELSE IF m.piece = "bK" THEN g.blackKingMoved
    ELSE IF m.piece = "wR" /\ m.startSq = a1 THEN g.whiteRookAMoved
    ELSE IF m.piece = "wR" /\ m.startSq = h1 THEN g.whiteRookHMoved
    ELSE IF m.piece = "bR" /\ m.startSq = a8 THEN g.blackRookAMoved
    ELSE IF m.piece = "bR" /\ m.startSq = h8 THEN g.blackRookHMoved
    ELSE TRUE

\* C9: over make_move calls, a king or rook move off the home square sets
\* the piece's moved-flag, no moved-flag goes back to false, and
\* generate_all_moves returns no castle move whose king or rook flag is
\* true.
C9_MovedFlagsPermanent ==
    [][last'.op = "make_move"
          => /\ \A i \in 1..6 : MovedFlags(gs)[i] => MovedFlags(gs')[i]
             /\ last'.outcome = "applied"
                   => FlagOfMover(gs', Top(gs').move)
             /\ \A m \in generate_all_moves(gs') :
                   m.isCastle => CastleFlags(gs', m) = {FALSE}]_vars

\* C9 witness: the h1 rook has left and come back, the king has not moved
\* and f1, g1 are empty, with white to move.
C9_Witness ==
    /\ JustApplied /\ gs.whiteToMove
    /\ gs.whiteRookHMoved /\ ~gs.whiteKingMoved
    /\ h1 \in gs.whiteRooks /\ e1 \in gs.whiteKing
    /\ {f1, g1} \cap get_occupancy(gs) = {}

\* C10: when the move before last was a castle and the last move ended on
\* one of the ghost squares of that castle, make_move has removed the
\* castled king, set game_over and toggled the side to move.
C10_GhostSquareCapturesKing ==
    (/\ JustApplied
     /\ Len(gs.move_history) >= 2
     /\ gs.move_history[Len(gs.move_history) - 1].move.isCastle
     /\ Top(gs).move.endSq \in
           CastleGhostSquares(gs.move_history[Len(gs.move_history) - 1].move))
    => /\ (IF Top(gs).snap.whiteToMove THEN gs.blackKing ELSE gs.whiteKing)
             = {}
       /\ gs.game_over
       /\ gs.whiteToMove = ~Top(gs).snap.whiteToMove


\* C11: after make_move of a castle move the ghost-square set is the king's
\* origin square together with the squares strictly between origin and
\* destination; after make_move of any other move it is empty.
C11_GhostSquaresAfterCastle ==
    JustApplied =>
        LET m == Top(gs).move
        IN  IF m.isCastle
            THEN gs.kingGhostSquares
                   = {m.startSq} \cup Between(m.startSq, m.endSq)
            ELSE gs.kingGhostSquares = {}

\* C12: a completed make_move has counted the resulting position signature
\* once more in the repetition map, has left the other counts alone, and
\* has set game_over when the count of the resulting signature is 3 or more.
C12_RepetitionRecorded ==
    JustApplied =>
        LET before == Top(gs).snap.repetition_history
            key == board_state(gs)
        IN  /\ key \in DOMAIN gs.repetition_history
            /\ gs.repetition_history[key]
                 = (IF key \in DOMAIN before THEN before[key] ELSE 0) + 1
            /\ \A k \in DOMAIN before \ {key} :
                  /\ k \in DOMAIN gs.repetition_history
                  /\ gs.repetition_history[k] = before[k]
            /\ gs.repetition_history[key] >= 3 => gs.game_over

\* C12 witness: the move just made produced a position for the third time.
C12_Witness ==
    /\ JustApplied
    /\ RepetitionCount(gs) = 3
    /\ gs.game_over

\* C13: after a completed make_move the halfmove clock is 0 when the move
\* was a capture or a pawn move, and otherwise one more than before.
C13_HalfmoveClockCountsQuietMoves ==
    JustApplied =>
        LET m == Top(gs).move
        IN  gs.halfmove_clock =
              (IF m.isCapture \/ m.piece \in {"wP", "bP"} THEN 0
               ELSE Top(gs).snap.halfmove_clock + 1)


\* C14: a make_move that completes with halfmove_clock >= 50 leaves
\* game_over true, and no make_move is applied in a state whose
\* halfmove_clock is 50 or more.
C14_FiftyMoveRuleEndsGame ==
    [][(last'.op = "make_move" /\ last'.outcome = "applied")
          => /\ gs.halfmove_clock < 50
             /\ gs'.halfmove_clock >= 50 => gs'.game_over]_vars

\* C14 witness: a move was offered and rejected in a game that ended on
\* the clock alone (no third repetition, the side to move has moves).
C14_Witness ==
    /\ last.op = "make_move" /\ last.outcome = "rejected"
    /\ gs.halfmove_clock >= 50
    /\ RepetitionCount(gs) < 3
    /\ generate_all_moves(gs) # {}


\* the king bitboard of the side to move is empty
KingMissing(g) ==
    IF g.whiteToMove THEN g.whiteKing = {} ELSE g.blackKing = {}

\* C15: when make_move has returned and generate_all_moves is empty for the
\* side now to move, game_over is true.
C15_NoMovesEndsGame ==
    (/\ last.op = "make_move" /\ last.outcome \in {"applied", "rejected"}
     /\ generate_all_moves(gs) = {})
    => gs.game_over

\* C15 witness: the move just made took the king of the side now to move,
\* which has no generated move.
C15_Witness ==
    /\ JustApplied
    /\ Top(gs).move.isCapture
    /\ KingMissing(gs) /\ ~KingMissing(Top(gs).snap)
    /\ generate_all_moves(gs) = {}

\* C16: on the standard initial position without drawbacks
\* generate_all_moves returns 20 moves: 8 single and 8 double pawn
\* advances and 4 knight moves, none of them a capture or a castle.
C16_TwentyMovesAtStart ==
    (/\ last.op = "init_standard_position"
     /\ gs.white_drawback \notin DRAWBACKS
     /\ gs.black_drawback \notin DRAWBACKS)
    => LET moves == generate_all_moves(gs)
           count(piece, dist) ==
               Cardinality({m \in moves : /\ m.piece = piece
                                          /\ m.startSq - m.endSq = dist})
       IN  /\ Cardinality(moves) = 20
           /\ count("wP", 8) = 8
           /\ count("wP", 16) = 8
           /\ Cardinality({m \in moves : m.piece = "wN"}) = 4
           /\ \A m \in moves : ~m.isCastle /\ ~m.isCapture

\* C16 witness: init_standard_position has run and white has knight moves.
C16_Witness ==
    /\ last.op = "init_standard_position"
    /\ gs.white_drawback \notin DRAWBACKS
    /\ \E m \in generate_all_moves(gs) : m.piece = "wN"

\* C17: generate_all_moves is empty whenever the side to move has no king.
C17_NoKingNoMoves ==
    KingMissing(gs) => generate_all_moves(gs) = {}

\* C17 witness: after a move the side to move has no king but has pieces.
C17_Witness ==
    /\ JustApplied
    /\ KingMissing(gs)
    /\ (IF gs.whiteToMove THEN get_white_occupancy(gs)
                          ELSE get_black_occupancy(gs)) # {}


\* the drawback of the side to move
DrawbackToMove(g) ==
    IF g.whiteToMove THEN g.white_drawback ELSE g.black_drawback

\* the moves generate_all_moves returns when no drawback is registered
MovesWithoutDrawbacks(g) ==
    generate_all_moves([g EXCEPT !.white_drawback = "None",
                                 !.black_drawback = "None"])

\* C18: with 'no_knights' registered for one side only, generate_all_moves
\* has no knight move when that side is to move, and when the other side
\* is to move it returns the moves it returns without any drawback.
C18_NoKnightsPrunesOneSide ==
    ({gs.white_drawback, gs.black_drawback} = {"no_knights", "None"})
    => IF DrawbackToMove(gs) = "no_knights"
       THEN \A m \in generate_all_moves(gs) : m.piece \notin {"wN", "bN"}
       ELSE generate_all_moves(gs) = MovesWithoutDrawbacks(gs)

\* C18 witness: black has the drawback, is to move after a move of white,
\* and would have knight moves without it.
C18_Witness ==
    /\ JustApplied
    /\ gs.black_drawback = "no_knights" /\ gs.white_drawback = "None"
    /\ ~gs.whiteToMove
    /\ \E m \in MovesWithoutDrawbacks(gs) : m.piece = "bN"


\* C19: unmake_move given another Move object with the same piece, origin,
\* destination, capture flag and castle flag as the move on top of the
\* history undoes that move.
C19_EqualFieldsUndoTheMove ==
    [][(last'.op = "unmake_move" /\ last'.arg = "copy")
          => /\ last'.outcome = "restored"
             /\ gs' = restore_snapshot(
                         [gs EXCEPT !.move_history =
                              SubSeq(@, 1, Len(@) - 1)],
                         Top(gs).snap)]_vars


\* the value of the unpruned minimax tree of the given depth below g, with
\* the leaves of the search: depth 0 or no generated move
RECURSIVE FullMinimax(_, _, _)
FullMinimax(g, depth, maximizing) ==
    IF depth = 0 \/ generate_all_moves(g) = {} THEN evaluate_board(g)
    ELSE LET values ==
                 {FullMinimax(make_move(g, Handed(g, m)), depth - 1,
                              ~maximizing) : m \in generate_all_moves(g)}
         IN  IF maximizing
             THEN CHOOSE v \in values : \A w \in values : v >= w
             ELSE CHOOSE v \in values : \A w \in values : v <= w

\* the root move and score of the unpruned minimax: the first move, in the
\* order the search tries the root moves, that has the best value
FullMinimaxRoot(g, depth) ==
    LET moves == sort_moves(MoveList(g))
        value == [i \in 1..Len(moves) |->
                    FullMinimax(make_move(g, Handed(g, moves[i])),
                                depth - 1, ~g.whiteToMove)]
        best == IF g.whiteToMove
                THEN CHOOSE v \in {value[i] : i \in 1..Len(moves)} :
                        \A i \in 1..Len(moves) : v >= value[i]
                ELSE CHOOSE v \in {value[i] : i \in 1..Len(moves)} :
                        \A i \in 1..Len(moves) : v <= value[i]
        first == CHOOSE i \in 1..Len(moves) :
                    /\ value[i] = best
                    /\ \A j \in 1..(i - 1) : value[j] # best
    IN  IF moves = <<>> THEN [move |-> NoMove, score |-> NoScore]
        ELSE [move |-> moves[first], score |-> best]

\* C20: without a time limit, the move and the score find_best_move
\* chooses at depth MaxDepth are those of the unpruned minimax of that
\* depth over the same moves in the same order.
C20_AlphaBetaEqualsMinimax ==
    gs.ghostAttrs
    => LET chosen == find_best_move(gs, MaxDepth)
           full == FullMinimaxRoot(gs, MaxDepth)
       IN  /\ chosen.move = full.move
           /\ chosen.score = full.score

\* the GameState the running or finished search was called on
Root == ai.root[1]

C22_DepthZeroSearchesNothing ==
    (ai.engine # "none" /\ ai.max_depth = 0)
    => /\ gs = Root
       /\ ai.stack = <<>>
       /\ ai.pc = "done" => ai.result = NoMove

\* C23: a search with a time limit of zero makes no move on the state and
\* returns no move.
C23_ZeroTimeLimitSearchesNothing ==
    (ai.engine = "ChessAI" /\ ai.time_limit = "zero")
    => /\ gs = Root
       /\ ai.stack = <<>>
       /\ ai.pc = "done" => ai.result = NoMove

\* C24: when no move is generated for the root position the search
\* returns no move, and the score it reports (current_evaluation of
\* AIPlayer; ChessAI reports none) is the static evaluation of the root
\* position.
C24_NoRootMovesReportsStaticEvaluation ==
    (/\ ai.engine # "none" /\ ai.pc = "done"
     /\ generate_all_moves(Root) = {})
    => /\ ai.result = NoMove
       /\ ai.engine = "AIPlayer"
            => ai.current_evaluation = evaluation_evaluate_board(Root)

\* exactly one of the two king bitboards is empty
OneKingMissing(g) == (g.whiteKing = {}) # (g.blackKing = {})

\* the position with everything but the kings taken off the board
KingsOnly(g) ==
    [g EXCEPT !.whitePawns = {}, !.whiteKnights = {}, !.whiteBishops = {},
              !.whiteRooks = {}, !.whiteQueen = {},
              !.blackPawns = {}, !.blackKnights = {}, !.blackBishops = {},
              !.blackRooks = {}, !.blackQueen = {}]

\* C25: in a position with exactly one king bitboard empty both
\* evaluation functions return a value that does not depend on the other
\* pieces (the same value as with the kings alone on the board) and whose
\* sign favours the side that has its king.
C25_MissingKingEvaluatesToConstant ==
    OneKingMissing(gs)
    => /\ evaluate_board(gs) = evaluate_board(KingsOnly(gs))
       /\ evaluation_evaluate_board(gs)
            = evaluation_evaluate_board(KingsOnly(gs))
       /\ (gs.blackKing = {})
            <=> (evaluate_board(gs) > 0 /\ evaluation_evaluate_board(gs) > 0)

\* C26: when the time limit ends the depth-d iteration (d >= 2) of
\* find_best_move before all root moves have been searched, the move
\* returned is the best move of the completed iteration of depth d - 1.
C26_TimeoutKeepsCompletedDepth ==
    (/\ ai.engine = "ChessAI" /\ ai.pc = "done"
     /\ ai.depth >= 2
     /\ ai.broke = "time" /\ ai.i < Len(ai.root_moves))
    => ai.result = find_best_move(Root, ai.depth - 1).move

\* C27: every depth iteration of find_best_move starts with the window
\* alpha = -infinity, beta = +infinity.
C27_WindowResetEachDepth ==
    (ai.engine = "ChessAI" /\ ai.pc = "root_loop" /\ ai.i = 1)
    => (ai.alpha = -Infinity /\ ai.beta = Infinity)

\* C28: when find_best_move or select_move has returned, the GameState
\* equals the state at the call in every field.
C28_SearchRestoresState ==
    (ai.engine # "none" /\ ai.pc = "done") => gs = Root

\* C29: the root is treated as maximizing exactly when white is to move
\* there, and every minimax call is made with the maximizing flag equal
\* to white-to-move in the position it is called on.
C29_MaximizingIsWhiteToMove ==
    /\ (ai.engine = "ChessAI" /\ ai.pc # "done" /\ ai.pc # "idle")
         => ai.root_maximizing = Root.whiteToMove
    /\ ai.pc = "enter" => TopFrame(ai).maximizing = gs.whiteToMove

\* C30: during a search the move history never has more than max_depth
\* moves on top of the history at the call.
C30_HistoryWithinMaxDepth ==
    ai.engine # "none"
    => Len(gs.move_history) <= Len(Root.move_history) + ai.max_depth

\* the bitboards of white's pieces (w = TRUE) or black's, pawns first
SideBitboards(g, w) ==
    IF w THEN SubSeq(Bitboards(g), 1, 6) ELSE SubSeq(Bitboards(g), 7, 12)

\* C33: make_move of a pawn capture onto the en-passant target removes
\* exactly one piece, the enemy pawn one rank behind the destination on
\* the mover's side; afterwards the destination holds the capturing pawn
\* only, and no other bitboard has changed.
C33_EnPassantRemovesPawnBehind ==
    (/\ JustApplied
     /\ Top(gs).move.piece \in {"wP", "bP"}
     /\ Top(gs).move.isCapture
     /\ Top(gs).move.endSq = Top(gs).snap.en_passant_target)
    => LET m == Top(gs).move
           before == Top(gs).snap
           w == m.piece = "wP"
           behind == IF w THEN m.endSq + 8 ELSE m.endSq - 8
       IN  /\ behind \in SideBitboards(before, ~w)[1]
           /\ SideBitboards(gs, ~w)[1]
                = SideBitboards(before, ~w)[1] \ {behind}
           /\ SideBitboards(gs, w)[1]
                = (SideBitboards(before, w)[1] \ {m.startSq})
                     \cup {m.endSq}
           /\ \A i \in 2..6 :
                 /\ SideBitboards(gs, w)[i] = SideBitboards(before, w)[i]
                 /\ SideBitboards(gs, ~w)[i] = SideBitboards(before, ~w)[i]
           /\ \A i \in 1..6 : m.endSq \notin SideBitboards(gs, ~w)[i]

\* C34: after make_move of a generated castle move the rook of the
\* castling side has left its corner (a- or h-file of the back rank) and
\* stands next to the king on the side it came from (d- or f-file), and
\* its moved-flag is true.
C34_CastleRelocatesRook ==
    (JustApplied /\ Top(gs).move.isCastle)
    => LET m == Top(gs).move
           w == m.piece = "wK"
           kingside == Col(m.endSq) = 6
           row == IF w THEN 7 ELSE 0
           corner == coords_to_square(row, IF kingside THEN 7 ELSE 0)
           beside == coords_to_square(row, IF kingside THEN 5 ELSE 3)
           rooks == IF w THEN gs.whiteRooks ELSE gs.blackRooks
           flag == IF w
                   THEN (IF kingside THEN gs.whiteRookHMoved
                         ELSE gs.whiteRookAMoved)
                   ELSE (IF kingside THEN gs.blackRookHMoved
                         ELSE gs.blackRookAMoved)
       IN  /\ corner \notin rooks
           /\ beside \in rooks
           /\ flag

\* the k-th square from sq in direction d, when it is on the board
Along(sq, d, k) ==
    IF in_bounds(Row(sq) + k * d[1], Col(sq) + k * d[2])
    THEN {coords_to_square(Row(sq) + k * d[1], Col(sq) + k * d[2])}
    ELSE {}

\* the squares a sliding piece on sq reaches in direction d: on the board,
\* nothing on the squares passed, no own piece on the square itself
Reach(occupied, own, sq, d) ==
    UNION {IF /\ \A j \in 1..(k - 1) :
                    /\ Along(sq, d, j) # {}
                    /\ Along(sq, d, j) \cap occupied = {}
              /\ Along(sq, d, k) \cap own = {}
           THEN Along(sq, d, k) ELSE {} : k \in 1..7}

\* the moves of the sliding pieces `pieces` of one kind, by the rule
Slides(g, is_white, pc, pieces, directions) ==
    LET white == get_white_occupancy(g)
        black == get_black_occupancy(g)
        own == IF is_white THEN white ELSE black
        enemy == IF is_white THEN black ELSE white
        occupied == white \cup black
    IN  UNION {{Move(pc, sq, t, t \in enemy, FALSE) :
                    t \in UNION {Reach(occupied, own, sq, d) :
                                    d \in directions}}
               : sq \in pieces}

\* C35: for both sides, the bishop, rook and queen generators return, for
\* every piece and every direction of its kind, the squares up to and
\* including the first enemy piece (flagged as a capture) and short of the
\* first own piece, on the board (rows and columns change by the
\* direction's step, so no ray leaves one edge and enters at another).
C35_SlidingRaysStopAtPieces ==
    \A w \in BOOLEAN :
        /\ generate_bishop_moves(gs, w)
             = Slides(gs, w, IF w THEN "wB" ELSE "bB",
                      IF w THEN gs.whiteBishops ELSE gs.blackBishops,
                      {<<-1, -1>>, <<-1, 1>>, <<1, -1>>, <<1, 1>>})
        /\ generate_rook_moves(gs, w)
             = Slides(gs, w, IF w THEN "wR" ELSE "bR",
                      IF w THEN gs.whiteRooks ELSE gs.blackRooks,
                      {<<-1, 0>>, <<1, 0>>, <<0, -1>>, <<0, 1>>})
        /\ generate_queen_moves(gs, w)
             = Slides(gs, w, IF w THEN "wQ" ELSE "bQ",
                      IF w THEN gs.whiteQueen ELSE gs.blackQueen,
                      {<<-1, -1>>, <<-1, 1>>, <<1, -1>>, <<1, 1>>,
                       <<-1, 0>>, <<1, 0>>, <<0, -1>>, <<0, 1>>})

\* C35 witness: a white bishop, rook or queen has a capture at the end of
\* a ray over at least one empty square, and the black piece right behind
\* the captured one on that ray is not among its destinations.
C35_Witness ==
    /\ JustApplied
    /\ LET moves == generate_bishop_moves(gs, TRUE)
                    \cup generate_rook_moves(gs, TRUE)
                    \cup generate_queen_moves(gs, TRUE)
       IN  \E m \in moves :
              /\ m.isCapture
              /\ \E d \in QueenDirections, k \in 2..7 :
                    /\ Along(m.startSq, d, k) = {m.endSq}
                    /\ Along(m.startSq, d, k + 1)
                         \cap get_black_occupancy(gs) # {}
                    /\ \A n \in moves :
                          n.startSq = m.startSq
                             => {n.endSq} # Along(m.startSq, d, k + 1)

\* C36: every move generate_all_moves returns starts on a square that
\* holds the named piece, a piece of the side to move; ends on a square
\* of the board that holds no piece of the side to move; and has the
\* capture flag set exactly when an enemy piece stands on the destination
\* or the move is a pawn's diagonal step onto the en-passant target.
C36_GeneratedMovesWellFormed ==
    \A m \in generate_all_moves(gs) :
        LET w == gs.whiteToMove
            own == IF w THEN get_white_occupancy(gs)
                   ELSE get_black_occupancy(gs)
            enemy == IF w THEN get_black_occupancy(gs)
                     ELSE get_white_occupancy(gs)
            names == IF w THEN <<"wP", "wN", "wB", "wR", "wQ", "wK">>
                     ELSE <<"bP", "bN", "bB", "bR", "bQ", "bK">>
        IN  /\ \E i \in 1..6 : /\ m.piece = names[i]
                               /\ m.startSq \in SideBitboards(gs, w)[i]
            /\ m.endSq \in Squares
            /\ m.endSq \notin own
            /\ m.isCapture
                 <=> \/ m.endSq \in enemy
                     \/ /\ m.piece = names[1]
                        /\ Col(m.endSq) # Col(m.startSq)
                        /\ m.endSq = gs.en_passant_target

MovesOfColour(g, by_white) == generate_all_moves([g EXCEPT !.whiteToMove = by_white])

C38_AttackedByNamedColour ==
    \A sq \in Squares, by_white \in BOOLEAN :
        is_square_attacked(gs, sq, by_white)
            <=> \E m \in MovesOfColour(gs, by_white) : m.endSq = sq


\* the number of pieces on the board, counted bitboard by bitboard
RECURSIVE PieceCount(_)
PieceCount(boards) ==
    IF boards = <<>> THEN 0
    ELSE Cardinality(Head(boards)) + PieceCount(Tail(boards))

\* C39: along make_move calls from the standard initial position no
\* bitboard gains a piece, each side has at most one king, and one
\* make_move removes at most one piece from the board.
C39_PieceCountsNeverIncrease ==
    /\ Cardinality(gs.whiteKing) <= 1
    /\ Cardinality(gs.blackKing) <= 1
    /\ JustApplied
       => LET before == Top(gs).snap
          IN  /\ \A i \in 1..12 :
                    Cardinality(Bitboards(gs)[i])
                       <= Cardinality(Bitboards(before)[i])
              /\ PieceCount(Bitboards(before)) - PieceCount(Bitboards(gs)) <= 1


\* C31: at every node of ChessAI's search, the root loop of
\* find_best_move and every minimax call, the step that unmakes a child
\* move ends suspended at a yield, the search is suspended there only
\* after such a step, and resuming leads to the next child or to the
\* return of the node, not to a second yield.
C31_YieldAfterEachChild ==
    [][ai.engine = "ChessAI"
       => /\ (ai.pc = "return" /\ Len(ai'.stack) < Len(ai.stack))
             => ai'.pc = "yield"
          /\ (ai'.pc = "yield" /\ ai.pc # "yield")
             => (ai.pc = "return" /\ Len(ai'.stack) < Len(ai.stack))
          /\ (ai.pc = "yield" /\ ai'.pc # "yield")
             => ai'.pc \in {"loop", "return"}]_vars


\* C32: when find_best_move returns after another call site has made a
\* generated move on the same GameState during a suspension of minimax,
\* the board is neither the one of the root position nor the one of the
\* root position with that move made.
C32_SearchDoesNotRestoreRoot ==
    (/\ ai.engine = "ChessAI" /\ ai.pc = "done"
     /\ ai.host_move # NoMove)
    => /\ Bitboards(gs) # Bitboards(Root)
       /\ Bitboards(gs) # Bitboards(make_move(Root, ai.host_move))

\* the search has returned after such a move, which was applied
C32_Witness ==
    /\ ai.engine = "ChessAI" /\ ai.pc = "done"
    /\ ai.host_move # NoMove
    /\ ai.result # NoMove
    /\ gs # Root
    /\ Len(gs.move_history) = Len(Root.move_history) + 1

====
